---- MODULE Spec2Model ----
(***************************************************************************)
(* A model of nav_insights.core: the restricted expression evaluator       *)
(* (core/dsl.py), its helper registry, the rule loader with its per-path   *)
(* cache and the rule evaluation engine (core/rules.py).                   *)
(*                                                                         *)
(* Python values are records [t, n, d, s]: t is the type tag, n/d a        *)
(* reduced rational (bool, int, float; for a dict n is its heap address)   *)
(* and s the characters of a str.  An expression is taken as the tree      *)
(* ast.parse yields for its text, together with the length of that text.   *)
(***************************************************************************)
EXTENDS Integers, Sequences, FiniteSets, TLC

(***************************************************************************)
(* Bounds of the model.                                                    *)
(***************************************************************************)
MaxRules == 2
MaxFresh == 33
MaxNest == 4

(***************************************************************************)
(* Python values.                                                          *)
(***************************************************************************)
Abs(x) == IF x < 0 THEN -x ELSE x

RECURSIVE Gcd(_, _)
Gcd(a, b) == IF b = 0 THEN a ELSE Gcd(b, a % b)

VNone == [t |-> "none", n |-> 0, d |-> 1, s |-> <<>>]
VBool(b) == [t |-> "bool", n |-> IF b THEN 1 ELSE 0, d |-> 1, s |-> <<>>]
VInt(i) == [t |-> "int", n |-> i, d |-> 1, s |-> <<>>]
VStr(chars) == [t |-> "str", n |-> 0, d |-> 1, s |-> chars]
VDict(addr) == [t |-> "dict", n |-> addr, d |-> 1, s |-> <<>>]
VObj(addr) == [t |-> "object", n |-> addr, d |-> 1, s |-> <<>>]

\* A float, kept as the reduced rational num/den (den # 0).
VFloat(num, den) ==
    LET g == Gcd(Abs(num), Abs(den))
        sgn == IF den < 0 THEN -1 ELSE 1
    IN [t |-> "float", n |-> (sgn * num) \div g, d |-> (sgn * den) \div g, s |-> <<>>]

IsNone(v) == v.t = "none"
IsNum(v) == v.t \in {"bool", "int", "float"}
IsIntLike(v) == v.t \in {"bool", "int"}
IsStr(v) == v.t = "str"

\* The fact records of the model: heap address -> dict (key -> value).
\* Keys and str values are sequences of characters.
K_x == <<"x">>
K_a == <<"a">>
K_b == <<"b">>
K_flag == <<"f">>

Heap ==
    <<  \* 1: {"x": 11, "f": True, "a": {"b": 0}}
        [k \in {K_x, K_flag, K_a} |->
            IF k = K_x THEN VInt(11) ELSE IF k = K_flag THEN VBool(TRUE) ELSE VDict(3)],
        \* 2: {"x": 5, "f": False, "a": None}
        [k \in {K_x, K_flag, K_a} |->
            IF k = K_x THEN VInt(5) ELSE IF k = K_flag THEN VBool(FALSE) ELSE VNone],
        \* 3: {"b": 0}
        [k \in {K_b} |-> VInt(0)],
        \* 4: {}
        [k \in {} |-> VNone]
    >>

\* bool(v)
Truthy(v) ==
    CASE v.t = "none" -> FALSE
      [] IsNum(v) -> v.n # 0
      [] v.t = "str" -> v.s # <<>>
      [] v.t = "dict" -> DOMAIN Heap[v.n] # {}
      [] OTHER -> TRUE

\* The order of the characters the model's strings are made of.
CharRank(c) ==
    CASE c = "." -> 1
      [] c = "a" -> 2
      [] c = "b" -> 3
      [] c = "f" -> 4
      [] c = "x" -> 5
      [] OTHER -> 6

RECURSIVE StrLess(_, _)
StrLess(a, b) ==
    IF b = <<>> THEN FALSE
    ELSE IF a = <<>> THEN TRUE
    ELSE IF Head(a) = Head(b) THEN StrLess(Tail(a), Tail(b))
    ELSE CharRank(Head(a)) < CharRank(Head(b))

NumLess(a, b) == a.n * b.d < b.n * a.d
NumEq(a, b) == a.n * b.d = b.n * a.d

\* Python's == on two non-None values.
PyEq(a, b) ==
    CASE IsNum(a) /\ IsNum(b) -> NumEq(a, b)
      [] IsStr(a) /\ IsStr(b) -> a.s = b.s
      [] a.t = "dict" /\ b.t = "dict" -> Heap[a.n] = Heap[b.n]
      [] a.t = "object" /\ b.t = "object" -> a.n = b.n
      [] OTHER -> FALSE

\* Whether Python orders the two values (otherwise < raises TypeError).
PyOrdered(a, b) == (IsNum(a) /\ IsNum(b)) \/ (IsStr(a) /\ IsStr(b))

PyLess(a, b) == IF IsNum(a) THEN NumLess(a, b) ELSE StrLess(a.s, b.s)

\* floor(p / q) for integers, q # 0.
FloorDiv(p, q) == IF q > 0 THEN p \div q ELSE (-p) \div (-q)

\* Python's % on integers: the result has the sign of the divisor.
PyModInt(p, q) == p - q * FloorDiv(p, q)

RECURSIVE Repeat(_, _)
Repeat(chars, k) == IF k <= 0 THEN <<>> ELSE chars \o Repeat(chars, k - 1)

\* The result of an operation: a value, or the class of the exception raised.
Ok(v) == [val |-> v, err |-> ""]
Raise(cls) == [val |-> VNone, err |-> cls]

\* A number of the type Python gives the result of + - * %.
NumResult(a, b, num, den) ==
    IF IsIntLike(a) /\ IsIntLike(b) THEN VInt(num \div den) ELSE VFloat(num, den)

\* operator.add / sub / mul / truediv / mod on two non-None values.
ApplyArith(op, a, b) ==
    CASE IsNum(a) /\ IsNum(b) ->
            (CASE op = "Add" -> Ok(NumResult(a, b, a.n * b.d + b.n * a.d, a.d * b.d))
               [] op = "Sub" -> Ok(NumResult(a, b, a.n * b.d - b.n * a.d, a.d * b.d))
               [] op = "Mult" -> Ok(NumResult(a, b, a.n * b.n, a.d * b.d))
               [] op = "Div" ->
                    IF b.n = 0 THEN Raise("ZeroDivisionError")
                    ELSE Ok(VFloat(a.n * b.d, a.d * b.n))
               [] op = "Mod" ->
                    IF b.n = 0 THEN Raise("ZeroDivisionError")
                    ELSE Ok(NumResult(a, b, PyModInt(a.n * b.d, b.n * a.d), a.d * b.d)))
      [] IsStr(a) /\ IsStr(b) /\ op = "Add" -> Ok(VStr(a.s \o b.s))
      [] IsStr(a) /\ IsIntLike(b) /\ op = "Mult" -> Ok(VStr(Repeat(a.s, b.n)))
      [] IsIntLike(a) /\ IsStr(b) /\ op = "Mult" -> Ok(VStr(Repeat(b.s, a.n)))
      \* str % mapping: the model's strings hold no conversion specifier
      [] IsStr(a) /\ b.t = "dict" /\ op = "Mod" -> Ok(a)
      [] OTHER -> Raise("TypeError")

(***************************************************************************)
(* Syntax trees, as ast.parse(expr, mode="eval") builds them.  Every node  *)
(* is a record [k, op, id, v, args, ops]: k the node class, op the         *)
(* operator class, id a name, v a constant, args the operand subtrees and  *)
(* ops the operator classes of a comparison.  A node is addressed by the   *)
(* sequence of operand indices that leads to it from the root.             *)
(***************************************************************************)
Node(k, op, id, v, args, ops) ==
    [k |-> k, op |-> op, id |-> id, v |-> v, args |-> args, ops |-> ops]

Expression(body) == Node("Expression", "", "", VNone, <<body>>, <<>>)
Constant(v) == Node("Constant", "", "", v, <<>>, <<>>)
Name(id) == Node("Name", "", id, VNone, <<>>, <<>>)
BinOp(l, op, r) == Node("BinOp", op, "", VNone, <<l, r>>, <<>>)
BoolOp(op, values) == Node("BoolOp", op, "", VNone, values, <<>>)
UnaryOp(op, operand) == Node("UnaryOp", op, "", VNone, <<operand>>, <<>>)
Compare(left, ops, comparators) == Node("Compare", "", "", VNone, <<left>> \o comparators, ops)
\* A call whose func is a Name; a call on anything else has op = "Attribute".
Call(id, args) == Node("Call", "Name", id, VNone, args, <<>>)
CallAttr(args) == Node("Call", "Attribute", "", VNone, args, <<>>)
\* A node of a class the evaluator does not know (Attribute, Tuple, ...).
OtherNode(k) == Node(k, "", "", VNone, <<>>, <<>>)

\* The exception classes of dsl_exceptions.py; all derive from ExpressionError.
DSLErrors ==
    {"ExpressionError", "ParseError", "UnsupportedNodeError",
     "HelperNotFoundError", "ResourceLimitError"}

ARITHMETIC_OPS == {"Add", "Sub", "Mult", "Div", "Mod"}
COMPARISON_OPS == {"Eq", "NotEq", "Lt", "LtE", "Gt", "GtE"}
UNARY_OPS == {"Not", "USub"}
ALLOWED_FUNCS == {"min", "max"}

(***************************************************************************)
(* value(path, root, default)                                              *)
(***************************************************************************)
\* path.split("."): the segments between the dots.
RECURSIVE Split(_, _)
Split(chars, cur) ==
    IF chars = <<>> THEN <<cur>>
    ELSE IF Head(chars) = "." THEN <<cur>> \o Split(Tail(chars), <<>>)
    ELSE Split(Tail(chars), Append(cur, Head(chars)))

\* dict.get(part)
DictGet(addr, part) == IF part \in DOMAIN Heap[addr] THEN Heap[addr][part] ELSE VNone

RECURSIVE ValueWalk(_, _, _)
\* A variant that returns the default for every falsy value, as
\* `cur or default` would.
ValueWalk_truthy(parts, cur, default) ==
    IF parts = <<>> THEN (IF ~Truthy(cur) THEN default ELSE cur)
    ELSE IF IsNone(cur) THEN default
    ELSE IF cur.t = "dict" THEN ValueWalk(Tail(parts), DictGet(cur.n, Head(parts)), default)
    ELSE default

ValueWalk(parts, cur, default) ==
    IF parts = <<>> THEN (IF IsNone(cur) THEN default ELSE cur)
    ELSE IF IsNone(cur) THEN default
    ELSE IF cur.t = "dict" THEN ValueWalk(Tail(parts), DictGet(cur.n, Head(parts)), default)
    ELSE default

value(path, root, default) == ValueWalk(Split(path, <<>>), root, default)

(***************************************************************************)
(* The helpers a registry can hold.  A registry maps names to helpers; a   *)
(* helper is named here by what it does.                                   *)
(***************************************************************************)
\* The items min()/max() range over: the arguments, or the single iterable.
RECURSIVE CharItems(_)
CharItems(chars) ==
    IF chars = <<>> THEN <<>> ELSE <<VStr(<<Head(chars)>>)>> \o CharItems(Tail(chars))

RECURSIVE MinMaxFold(_, _, _)
MinMaxFold(isMin, best, rest) ==
    IF rest = <<>> THEN Ok(best)
    ELSE LET item == Head(rest)
         IN IF IsNone(item) \/ IsNone(best) \/ ~PyOrdered(item, best) THEN Raise("TypeError")
            ELSE IF (IF isMin THEN PyLess(item, best) ELSE PyLess(best, item))
                 THEN MinMaxFold(isMin, item, Tail(rest))
                 ELSE MinMaxFold(isMin, best, Tail(rest))

MinMax(isMin, args) ==
    IF Len(args) = 0 THEN Raise("TypeError")
    ELSE IF Len(args) = 1 THEN
        (IF IsStr(args[1]) THEN
            (IF args[1].s = <<>> THEN Raise("ValueError")
             ELSE LET items == CharItems(args[1].s)
                  IN MinMaxFold(isMin, Head(items), Tail(items)))
         ELSE Raise("TypeError"))
    ELSE MinMaxFold(isMin, Head(args), Tail(args))

\* A registered plain function applied to its arguments.
CallFunction(fn, args) ==
    CASE fn = "min" -> MinMax(TRUE, args)
      [] fn = "max" -> MinMax(FALSE, args)
      [] fn = "zero" -> Ok(VInt(0))             \* lambda *a: 0
      [] fn = "one" -> Ok(VInt(1))              \* lambda *a: 1
      [] fn = "boom" -> Raise("RuntimeError")   \* a helper that raises
      [] OTHER -> Raise("TypeError")

\* accessor_factory(root)(*args) for a registered accessor factory.
CallAccessor(factory, root, args) ==
    CASE factory = "value" ->                   \* DSLRegistry._make_value_accessor
            IF Len(args) = 1 /\ IsStr(args[1]) THEN Ok(value(args[1].s, root, VNone))
            ELSE IF Len(args) = 2 /\ IsStr(args[1]) THEN Ok(value(args[1].s, root, args[2]))
            ELSE IF Len(args) = 1 \/ Len(args) = 2 THEN Raise("AttributeError")
            ELSE Raise("TypeError")
      [] factory = "acc_zero" -> Ok(VInt(0))    \* lambda root: lambda *a: 0
      [] factory = "acc_boom" -> Raise("KeyError")
      [] factory = "factory_boom" -> Raise("RuntimeError")
      [] OTHER -> Raise("TypeError")

(***************************************************************************)
(* SafeEval.  The evaluator's mutable state st = [depth, trace, calls] is  *)
(* threaded through the visits: depth is self.current_depth, trace the     *)
(* addresses of the nodes visit() was entered for, in order, and calls the *)
(* helper invocations (the Call node and the branch taken), in order.  env = [root, functions, accessors,          *)
(* max_depth] is what stays fixed during one evaluation.  A visit yields   *)
(* [val, err, st]: err is "" or the class of the exception raised.         *)
(***************************************************************************)
Res(val, err, st) == [val |-> val, err |-> err, st |-> st]

\* The exception clauses of the handlers: what they catch becomes ExpressionError.
Wrap(caught, r) ==
    IF r.err # "" /\ (caught = {"Exception"} \/ r.err \in caught)
    THEN Raise("ExpressionError") ELSE r

RECURSIVE Visit(_, _, _, _)
RECURSIVE VisitArgs(_, _, _, _, _, _)
RECURSIVE AndLoop(_, _, _, _, _, _)
RECURSIVE OrLoop(_, _, _, _, _, _)
RECURSIVE CompareLoop(_, _, _, _, _, _)

\* [self.visit(a) for a in node.args]: val is the list of the values.
VisitArgs(args, i, acc, path, st, env) ==
    IF i > Len(args) THEN Res(acc, "", st)
    ELSE LET r == Visit(args[i], Append(path, i), st, env)
         IN IF r.err # "" THEN r
            ELSE VisitArgs(args, i + 1, Append(acc, r.val), path, r.st, env)

\* A variant that takes None for 0 in arithmetic.
_handle_binop_zero(node, path, st, env) ==
    LET l == Visit(node.args[1], Append(path, 1), st, env)
        num(v) == IF IsNone(v) THEN VInt(0) ELSE v
    IN IF l.err # "" THEN l
       ELSE LET r == Visit(node.args[2], Append(path, 2), l.st, env)
            IN IF r.err # "" THEN r
               ELSE IF node.op \notin ARITHMETIC_OPS THEN Res(VNone, "UnsupportedNodeError", r.st)
               ELSE LET x == Wrap({"TypeError", "ZeroDivisionError", "ValueError"},
                                  ApplyArith(node.op, num(l.val), num(r.val)))
                    IN Res(x.val, x.err, r.st)

_handle_binop(node, path, st, env) ==
    LET l == Visit(node.args[1], Append(path, 1), st, env)
    IN IF l.err # "" THEN l
       ELSE LET r == Visit(node.args[2], Append(path, 2), l.st, env)
            IN IF r.err # "" THEN r
               ELSE IF IsNone(l.val) \/ IsNone(r.val) THEN Res(VNone, "", r.st)
               ELSE IF node.op \notin ARITHMETIC_OPS THEN Res(VNone, "UnsupportedNodeError", r.st)
               ELSE LET x == Wrap({"TypeError", "ZeroDivisionError", "ValueError"},
                                  ApplyArith(node.op, l.val, r.val))
                    IN Res(x.val, x.err, r.st)

\* A variant that yields False for every falsy operand.
AndLoop_bool(node, i, last_val, path, st, env) ==
    IF i > Len(node.args) THEN Res(last_val, "", st)
    ELSE LET r == Visit(node.args[i], Append(path, i), st, env)
         IN IF r.err # "" THEN r
            ELSE IF ~Truthy(r.val) THEN Res(VBool(FALSE), "", r.st)
            ELSE AndLoop(node, i + 1, r.val, path, r.st, env)

\* The loop of the And branch from operand i on.
AndLoop(node, i, last_val, path, st, env) ==
    IF i > Len(node.args) THEN Res(last_val, "", st)
    ELSE LET r == Visit(node.args[i], Append(path, i), st, env)
         IN IF r.err # "" THEN r
            ELSE IF IsNone(r.val) THEN Res(VBool(FALSE), "", r.st)
            ELSE IF ~Truthy(r.val) THEN r
            ELSE AndLoop(node, i + 1, r.val, path, r.st, env)

\* A variant that yields False whenever no operand is truthy.
OrLoop_false(node, i, last_val, path, st, env) ==
    IF i > Len(node.args) THEN Res(VBool(FALSE), "", st)
    ELSE LET r == Visit(node.args[i], Append(path, i), st, env)
         IN IF r.err # "" THEN r
            ELSE IF Truthy(r.val) THEN r
            ELSE OrLoop(node, i + 1, r.val, path, r.st, env)

\* The loop of the Or branch from operand i on.
OrLoop(node, i, last_val, path, st, env) ==
    IF i > Len(node.args)
    THEN Res(IF IsNone(last_val) THEN VBool(FALSE) ELSE last_val, "", st)
    ELSE LET r == Visit(node.args[i], Append(path, i), st, env)
         IN IF r.err # "" THEN r
            ELSE IF Truthy(r.val) THEN r
            ELSE OrLoop(node, i + 1, r.val, path, r.st, env)

\* A variant that evaluates every operand before it combines them.
_handle_boolop_eager(node, path, st, env) ==
    LET a == VisitArgs(node.args, 1, <<>>, path, st, env)
        stops(v) == IF node.op = "And" THEN ~Truthy(v) ELSE Truthy(v)
        hits == {i \in 1..Len(node.args) : stops(a.val[i])}
        pick == IF hits = {} THEN a.val[Len(a.val)]
                ELSE a.val[CHOOSE i \in hits : \A j \in hits : i <= j]
    IN IF a.err # "" THEN a
       ELSE Res(IF IsNone(pick) THEN VBool(FALSE) ELSE pick, "", a.st)

_handle_boolop(node, path, st, env) ==
    IF node.op = "And" THEN AndLoop(node, 1, VNone, path, st, env)
    ELSE IF node.op = "Or" THEN OrLoop(node, 1, VNone, path, st, env)
    ELSE Res(VNone, "UnsupportedNodeError", st)

\* operator.not_ / operator.neg
ApplyUnary(op, x) ==
    IF op = "Not" THEN Ok(VBool(~Truthy(x)))
    ELSE IF IsIntLike(x) THEN Ok(VInt(-x.n))
    ELSE IF x.t = "float" THEN Ok(VFloat(-x.n, x.d))
    ELSE Raise("TypeError")

_handle_unaryop(node, path, st, env) ==
    LET r == Visit(node.args[1], Append(path, 1), st, env)
    IN IF r.err # "" THEN r
       ELSE IF node.op \notin UNARY_OPS THEN Res(VNone, "UnsupportedNodeError", r.st)
       ELSE LET x == Wrap({"TypeError", "ValueError"}, ApplyUnary(node.op, r.val))
            IN Res(x.val, x.err, r.st)

\* operator.eq / ne / lt / le / gt / ge on two non-None values.
ApplyCompare(op, a, b) ==
    CASE op = "Eq" -> Ok(VBool(PyEq(a, b)))
      [] op = "NotEq" -> Ok(VBool(~PyEq(a, b)))
      [] ~PyOrdered(a, b) -> Raise("TypeError")
      [] op = "Lt" -> Ok(VBool(PyLess(a, b)))
      [] op = "LtE" -> Ok(VBool(~PyLess(b, a)))
      [] op = "Gt" -> Ok(VBool(PyLess(b, a)))
      [] OTHER -> Ok(VBool(~PyLess(a, b)))

\* A variant that hands null operands to the native comparison.
CompareLoop_native(node, i, left, path, st, env) ==
    IF i > Len(node.ops) THEN Res(VBool(TRUE), "", st)
    ELSE LET r == Visit(node.args[i + 1], Append(path, i + 1), st, env)
             op == node.ops[i]
         IN IF r.err # "" THEN r
            ELSE LET result ==
                        IF op \notin COMPARISON_OPS THEN Raise("UnsupportedNodeError")
                        ELSE IF IsNone(left) /\ IsNone(r.val) /\ op \in {"Eq", "NotEq"}
                        THEN Ok(VBool(op = "Eq"))
                        ELSE IF IsNone(left) \/ IsNone(r.val)
                        THEN (IF op \in {"Eq", "NotEq"} THEN Ok(VBool(op = "NotEq"))
                              ELSE Raise("ExpressionError"))
                        ELSE Wrap({"TypeError", "ValueError"}, ApplyCompare(op, left, r.val))
                 IN IF result.err # "" THEN Res(VNone, result.err, r.st)
                    ELSE IF ~Truthy(result.val) THEN Res(VBool(FALSE), "", r.st)
                    ELSE CompareLoop(node, i + 1, r.val, path, r.st, env)

\* The loop over zip(node.ops, node.comparators) from pair i on.
CompareLoop(node, i, left, path, st, env) ==
    IF i > Len(node.ops) THEN Res(VBool(TRUE), "", st)
    ELSE LET r == Visit(node.args[i + 1], Append(path, i + 1), st, env)
             op == node.ops[i]
         IN IF r.err # "" THEN r
            ELSE LET result ==
                        IF IsNone(left) /\ IsNone(r.val) THEN Ok(VBool(op = "Eq"))
                        ELSE IF IsNone(left) \/ IsNone(r.val) THEN Ok(VBool(op = "NotEq"))
                        ELSE IF op \notin COMPARISON_OPS THEN Raise("UnsupportedNodeError")
                        ELSE Wrap({"TypeError", "ValueError"}, ApplyCompare(op, left, r.val))
                 IN IF result.err # "" THEN Res(VNone, result.err, r.st)
                    ELSE IF ~Truthy(result.val) THEN Res(VBool(FALSE), "", r.st)
                    ELSE CompareLoop(node, i + 1, r.val, path, r.st, env)

\* A variant that evaluates every operand before it compares the pairs.
_handle_compare_eager(node, path, st, env) ==
    LET a == VisitArgs(node.args, 1, <<>>, path, st, env)
        pair(i) == CompareLoop([node EXCEPT !.args = <<Constant(a.val[i]), Constant(a.val[i + 1])>>,
                                            !.ops = <<node.ops[i]>>],
                               1, a.val[i], path, st, env)
        bad == {i \in 1..Len(node.ops) : pair(i).err # "" \/ ~Truthy(pair(i).val)}
        i0 == CHOOSE i \in bad : \A j \in bad : i <= j
    IN IF a.err # "" THEN a
       ELSE IF bad = {} THEN Res(VBool(TRUE), "", a.st)
       ELSE Res(pair(i0).val, pair(i0).err, a.st)

_handle_compare(node, path, st, env) ==
    LET l == Visit(node.args[1], Append(path, 1), st, env)
    IN IF l.err # "" THEN l ELSE CompareLoop(node, 1, l.val, path, l.st, env)

\* The branch of _handle_call for a name found among the accessors.
CallViaAccessor(node, path, st, env) ==
    LET a == VisitArgs(node.args, 1, <<>>, path, st, env)
        args == a.val
        st2 == [a.st EXCEPT !.calls = Append(@, [at |-> path, via |-> "accessor"])]
    IN IF a.err # "" THEN a
       ELSE IF node.id = "value" THEN
            (IF Len(args) = 1 /\ IsStr(args[1])
             THEN Res(value(args[1].s, env.root, VNone), "", st2)
             ELSE IF Len(args) = 2 /\ IsStr(args[1])
             THEN Res(value(args[1].s, env.root, args[2]), "", st2)
             ELSE Res(VNone, "ExpressionError", a.st))
       ELSE LET x == CallAccessor(env.accessors[node.id], env.root, args)
            IN Res(x.val, x.err, st2)

\* The branch of _handle_call for a name found among the functions.
CallViaFunction(node, path, st, env) ==
    LET a == VisitArgs(node.args, 1, <<>>, path, st, env)
    IN IF a.err # "" THEN a
       ELSE LET x == Wrap({"Exception"}, CallFunction(env.functions[node.id], a.val))
            IN Res(x.val, x.err,
                   [a.st EXCEPT !.calls = Append(@, [at |-> path, via |-> "function"])])

\* The legacy branch of _handle_call: the module's own table ALLOWED_FUNCS.
CallViaAllowedFuncs(node, path, st, env) ==
    LET a == VisitArgs(node.args, 1, <<>>, path, st, env)
    IN IF a.err # "" THEN a
       ELSE LET x == Wrap({"Exception"}, CallFunction(node.id, a.val))
            IN Res(x.val, x.err,
                   [a.st EXCEPT !.calls = Append(@, [at |-> path, via |-> "legacy"])])

\* A variant that looks among the functions before the accessors.
_handle_call_functionsFirst(node, path, st, env) ==
    IF node.op # "Name" THEN Res(VNone, "UnsupportedNodeError", st)
    ELSE IF node.id \in DOMAIN env.functions THEN CallViaFunction(node, path, st, env)
    ELSE IF node.id \in DOMAIN env.accessors THEN CallViaAccessor(node, path, st, env)
    ELSE IF node.id \in ALLOWED_FUNCS THEN CallViaAllowedFuncs(node, path, st, env)
    ELSE Res(VNone, "HelperNotFoundError", st)

_handle_call(node, path, st, env) ==
    IF node.op # "Name" THEN Res(VNone, "UnsupportedNodeError", st)
    ELSE IF node.id \in DOMAIN env.accessors THEN CallViaAccessor(node, path, st, env)
    ELSE IF node.id \in DOMAIN env.functions THEN CallViaFunction(node, path, st, env)
    ELSE IF node.id \in ALLOWED_FUNCS THEN CallViaAllowedFuncs(node, path, st, env)
    ELSE Res(VNone, "HelperNotFoundError", st)

\* The body of visit() inside its try block.
Dispatch(node, path, st, env) ==
    CASE node.k = "Expression" -> Visit(node.args[1], Append(path, 1), st, env)
      [] node.k = "Constant" -> Res(node.v, "", st)
      [] node.k = "Name" ->
            IF node.id = "True" THEN Res(VBool(TRUE), "", st)
            ELSE IF node.id = "False" THEN Res(VBool(FALSE), "", st)
            ELSE IF node.id = "None" THEN Res(VNone, "", st)
            ELSE Res(VNone, "UnsupportedNodeError", st)
      [] node.k = "BinOp" -> _handle_binop(node, path, st, env)
      [] node.k = "BoolOp" -> _handle_boolop(node, path, st, env)
      [] node.k = "UnaryOp" -> _handle_unaryop(node, path, st, env)
      [] node.k = "Compare" -> _handle_compare(node, path, st, env)
      [] node.k = "Call" -> _handle_call(node, path, st, env)
      [] OTHER -> Res(VNone, "UnsupportedNodeError", st)

\* A variant that does not count the visit of the enclosing ast.Expression.
Visit_rootFree(node, path, st, env) ==
    LET st1 == [st EXCEPT !.depth = IF node.k = "Expression" THEN @ ELSE @ + 1,
                          !.trace = Append(@, path)]
    IN IF st1.depth > env.max_depth THEN Res(VNone, "ResourceLimitError", st1)
       ELSE LET r == Dispatch(node, path, st1, env)
            IN [r EXCEPT !.st.depth = IF node.k = "Expression" THEN @ ELSE @ - 1]

\* SafeEval.visit: the depth check raises before the try block is entered, so
\* the finally clause decrements only for a visit that passed the check.
Visit(node, path, st, env) ==
    LET st1 == [st EXCEPT !.depth = @ + 1, !.trace = Append(@, path)]
    IN IF st1.depth > env.max_depth THEN Res(VNone, "ResourceLimitError", st1)
       ELSE LET r == Dispatch(node, path, st1, env)
            IN [r EXCEPT !.st.depth = @ - 1]

\* SafeEval.__init__
NewSafeEval == [depth |-> 0, trace |-> <<>>, calls |-> <<>>]

\* An expression as given to eval_expr: the length of its text and what
\* ast.parse makes of it (tree is the Expression node when it parses).
Expr(len, tree) == [len |-> len, parses |-> TRUE, tree |-> Expression(tree)]
BadSyntax(len) == [len |-> len, parses |-> FALSE, tree |-> OtherNode("SyntaxError")]

\* A variant that parses before it looks at the length.
eval_expr_parseFirst(expr, root, registry, max_length, max_depth) ==
    IF ~expr.parses THEN Res(VNone, "ParseError", NewSafeEval)
    ELSE IF expr.len > max_length THEN Res(VNone, "ResourceLimitError", NewSafeEval)
    ELSE Visit(expr.tree, <<>>, NewSafeEval,
               [root |-> root, functions |-> registry.functions,
                accessors |-> registry.accessors, max_depth |-> max_depth])

eval_expr(expr, root, registry, max_length, max_depth) ==
    IF expr.len > max_length THEN Res(VNone, "ResourceLimitError", NewSafeEval)
    ELSE IF ~expr.parses THEN Res(VNone, "ParseError", NewSafeEval)
    ELSE Visit(expr.tree, <<>>, NewSafeEval,
               [root |-> root, functions |-> registry.functions,
                accessors |-> registry.accessors, max_depth |-> max_depth])

\* The default limits of eval_expr.
DefaultMaxLength == 1024
DefaultMaxDepth == 25

(***************************************************************************)
(* DSLRegistry: functions and accessors map a name to a helper.            *)
(***************************************************************************)
\* DSLRegistry.__init__
NewRegistry ==
    [functions |-> [n \in {"min", "max"} |-> n],
     accessors |-> [n \in {"value"} |-> "value"]]

\* What is not callable cannot be registered.
Callable(helper) == helper # "not_callable"

\* d[name] = helper
DictSet(d, name, helper) ==
    [n \in DOMAIN d \cup {name} |-> IF n = name THEN helper ELSE d[n]]

\* A variant that stores the helper whatever the name holds.
register_function_overwrite(reg, name, func) ==
    IF ~Callable(func) THEN [reg |-> reg, err |-> "ValueError"]
    ELSE [reg |-> [reg EXCEPT !.functions = DictSet(@, name, func)], err |-> ""]

\* Both yield [reg, err]: the registry afterwards and "" or the exception class.
register_function(reg, name, func) ==
    IF name \in DOMAIN reg.functions THEN [reg |-> reg, err |-> "ValueError"]
    ELSE IF ~Callable(func) THEN [reg |-> reg, err |-> "ValueError"]
    ELSE [reg |-> [reg EXCEPT !.functions = DictSet(@, name, func)], err |-> ""]

register_accessor(reg, name, func) ==
    IF name \in DOMAIN reg.accessors THEN [reg |-> reg, err |-> "ValueError"]
    ELSE IF ~Callable(func) THEN [reg |-> reg, err |-> "ValueError"]
    ELSE [reg |-> [reg EXCEPT !.accessors = DictSet(@, name, func)], err |-> ""]

\* A variant that leaves what was registered.
clear_keepsCustom(reg) == reg

\* DSLRegistry.clear
clear(reg) == NewRegistry

\* d2 laid over d1
DictMerge(d1, d2) ==
    [n \in DOMAIN d1 \cup DOMAIN d2 |-> IF n \in DOMAIN d2 THEN d2[n] ELSE d1[n]]

\* A variant that falls back on the default registry for the names the
\* given one does not hold.
SafeEvalRegistry_fallback(given, default, privs) ==
    IF given = "None" THEN default
    ELSE [functions |-> DictMerge(default.functions, privs[given].functions),
          accessors |-> DictMerge(default.accessors, privs[given].accessors)]

\* SafeEval.__init__: self.registry = registry or _registry
SafeEvalRegistry(given, default, privs) ==
    IF given = "None" THEN default ELSE privs[given]

(***************************************************************************)
(* Addresses in a tree.                                                    *)
(***************************************************************************)
RECURSIVE Addrs(_, _)
Addrs(node, path) ==
    {path} \cup UNION {Addrs(node.args[i], Append(path, i)) : i \in 1..Len(node.args)}

RECURSIVE NodeAt(_, _)
NodeAt(node, path) ==
    IF path = <<>> THEN node ELSE NodeAt(node.args[Head(path)], Tail(path))

IsPrefix(p, q) == Len(p) <= Len(q) /\ SubSeq(q, 1, Len(p)) = p

Range(seq) == {seq[i] : i \in 1..Len(seq)}

(***************************************************************************)
(* The expressions and fact records the evaluator is run on.               *)
(***************************************************************************)
RECURSIVE TextLen(_)
\* The length of the shortest text that parses to the tree (operands of an
\* operator in parentheses when they are operators themselves).
TextLen(node) ==
    LET arg(i) == TextLen(node.args[i]) +
                  (IF node.args[i].k \in {"BinOp", "BoolOp", "Compare", "UnaryOp"} THEN 2 ELSE 0)
        RECURSIVE sum(_)
        sum(i) == IF i > Len(node.args) THEN 0 ELSE arg(i) + sum(i + 1)
        n == Len(node.args)
    IN CASE node.k = "Expression" -> TextLen(node.args[1])
         [] node.k = "Constant" ->
                (CASE node.v.t = "none" -> 4
                   [] node.v.t = "bool" -> IF node.v.n = 1 THEN 4 ELSE 5
                   [] node.v.t = "str" -> Len(node.v.s) + 2
                   [] OTHER -> IF node.v.n < 10 THEN 1 ELSE 2)
         [] node.k = "Name" -> 4
         [] node.k = "BinOp" -> sum(1) + 1
         [] node.k = "BoolOp" -> sum(1) + (n - 1) * (IF node.op = "And" THEN 5 ELSE 4)
         [] node.k = "UnaryOp" -> sum(1) + (IF node.op = "Not" THEN 4 ELSE 1)
         [] node.k = "Compare" -> sum(1) + 2 * (n - 1)
         [] node.k = "Call" -> 5 + 2 + sum(1) + (IF n > 1 THEN n - 1 ELSE 0)
         [] OTHER -> 1

ExprOf(tree) == Expr(TextLen(tree), tree)

E_True == Constant(VBool(TRUE))
E_False == Constant(VBool(FALSE))
E_None == Constant(VNone)
E_Int(i) == Constant(VInt(i))
E_Str(chars) == Constant(VStr(chars))
\* value('x'), value('a.b'), value('m') (a missing key)
E_Value(chars) == Call("value", <<E_Str(chars)>>)
\* 1 / 0
E_DivZero == BinOp(E_Int(1), "Div", E_Int(0))

\* Operands of and/or: falsy, null, truthy and failing ones, and helper calls.
BoolOperands ==
    {E_True, E_False, E_None, E_Int(0), E_Int(5), E_Str(<<>>), E_Str(<<"a">>),
     E_Value(K_flag), E_Value(<<"m">>), E_DivZero,
     Call("f", <<>>), Call("g", <<E_Int(1)>>)}

BoolOps == {"And", "Or"}

\* a OP b;  a OP b OP c;  a OP (b OP' c);  not (a OP b)
BoolExprs ==
    {BoolOp(op, <<a, b>>) : op \in BoolOps, a \in BoolOperands, b \in BoolOperands}
    \cup {BoolOp(op, <<a, b, E_DivZero>>) :
            op \in BoolOps, a \in {E_True, E_None, E_Int(0)}, b \in {E_False, E_Int(5), Call("f", <<>>)}}
    \cup {BoolOp(op, <<a, BoolOp(op2, <<b, E_DivZero>>)>>) :
            op \in BoolOps, op2 \in BoolOps, a \in {E_True, E_Int(0)}, b \in {E_False, E_Str(<<"a">>)}}
    \cup {UnaryOp("Not", BoolOp(op, <<a, Call("f", <<>>)>>)) :
            op \in BoolOps, a \in {E_True, E_False}}

\* The fact records handed to eval_expr as root.
Roots == {VDict(1), VDict(2), VNone}

\* The depth limits eval_expr is called with.
DepthLimits == {3, DefaultMaxDepth}

(***************************************************************************)
(* Rule sources.  What yaml.safe_load yields for a rules file is           *)
(* [kind, items]: a list of entries, nothing (an empty file), another      *)
(* falsy value ({}, 0, false, '') or another truthy value (a mapping, a    *)
(* string).  An entry is [mapping, id, if_all, conds, priority, type,      *)
(* template]; a condition is [kind, expr].                                 *)
(***************************************************************************)
YamlList(items) == [kind |-> "list", items |-> items]
YamlEmpty == [kind |-> "empty", items |-> <<>>]
YamlFalsy == [kind |-> "falsy", items |-> <<>>]
YamlTruthy == [kind |-> "truthy", items |-> <<>>]
NoFile == [kind |-> "no_file", items |-> <<>>]

Cond(tree) == [kind |-> "ok", expr |-> ExprOf(tree)]
CondBadSyntax == [kind |-> "ok", expr |-> BadSyntax(3)]             \* {expr: "1 +"}
CondNotMapping == [kind |-> "not_mapping", expr |-> BadSyntax(0)]   \* "x > 1"
CondNoExpr == [kind |-> "no_expr", expr |-> BadSyntax(0)]           \* {when: "x > 1"}
CondNotStr == [kind |-> "not_str", expr |-> BadSyntax(0)]           \* {expr: 1}

\* An expected_impact tree is a mapping of keys to leaves; a leaf is
\* [str, v, expr]: whether it is a string, its value, and for a string what
\* ast.parse makes of it.
Leaf(v) == [str |-> FALSE, v |-> v, expr |-> BadSyntax(0)]
StrLeaf(chars, tree) == [str |-> TRUE, v |-> VStr(chars), expr |-> Expr(Len(chars), tree)]
StrLeafBadSyntax(chars) == [str |-> TRUE, v |-> VStr(chars), expr |-> BadSyntax(Len(chars))]

\* r.get("expected_impact", {}) of an entry without the key
NoImpact == [k \in {} |-> Leaf(VNone)]

\* id <<>> stands for a missing or empty id, priority 0 and type "" for absent keys.
Rule(id, if_all, conds, priority, type, template) ==
    [mapping |-> TRUE, id |-> id, if_all |-> if_all, conds |-> conds,
     priority |-> priority, type |-> type, template |-> template,
     expected_impact |-> NoImpact]
RuleNotMapping ==
    [mapping |-> FALSE, id |-> <<>>, if_all |-> "absent", conds |-> <<>>,
     priority |-> 0, type |-> "", template |-> "none", expected_impact |-> NoImpact]

\* rules = yaml.safe_load(f) or []
OrEmptyList(y) == IF y.kind \in {"empty", "falsy"} THEN YamlList(<<>>) ELSE y

\* r.get("if_all", [])
IfAll(r) == IF r.if_all = "absent" THEN <<>> ELSE r.conds

\* The checks of one condition: "" or the exception class.
RECURSIVE CheckConds(_, _)
CheckConds(conds, j) ==
    IF j > Len(conds) THEN ""
    ELSE IF conds[j].kind # "ok" THEN "ValueError"
    ELSE IF ~conds[j].expr.parses THEN "SyntaxError"
    ELSE CheckConds(conds, j + 1)

\* The loop of _validate_ruleset from entry i on.  Yields [err, at, names]:
\* the exception class ("" for none), the index of the offending entry and
\* what the message names it by ("index", "id" or "nothing").
RECURSIVE ValidateFrom(_, _)
ValidateFrom(items, i) ==
    IF i > Len(items) THEN [err |-> "", at |-> 0, names |-> "nothing"]
    ELSE LET r == items[i]
         IN IF ~r.mapping THEN [err |-> "ValueError", at |-> i, names |-> "index"]
            ELSE IF r.id = <<>> THEN [err |-> "ValueError", at |-> i, names |-> "index"]
            ELSE IF r.if_all = "not_list" THEN [err |-> "ValueError", at |-> i, names |-> "id"]
            ELSE LET c == CheckConds(IfAll(r), 1)
                 IN IF c = "ValueError" THEN [err |-> c, at |-> i, names |-> "id"]
                    ELSE IF c # "" THEN [err |-> c, at |-> i, names |-> "nothing"]
                    ELSE ValidateFrom(items, i + 1)

_validate_ruleset(rules) ==
    IF rules.kind # "list" THEN [err |-> "ValueError", at |-> 0, names |-> "nothing"]
    ELSE ValidateFrom(rules.items, 1)

(***************************************************************************)
(* The cache of _load_rules_cached: functools.lru_cache(maxsize=32), kept  *)
(* as the sequence of its entries [path, rules], least recently used       *)
(* first.  A call that raises stores nothing.                              *)
(***************************************************************************)
maxsize == 32

CachedPaths(cache) == {cache[i].path : i \in 1..Len(cache)}
CacheIndex(cache, path) == CHOOSE i \in 1..Len(cache) : cache[i].path = path
WithoutIndex(seq, i) == SubSeq(seq, 1, i - 1) \o SubSeq(seq, i + 1, Len(seq))

\* The wrapped function: open, yaml.safe_load, validate.
ReadRules(file) ==
    IF file.kind = "no_file" THEN [err |-> "FileNotFoundError", rules |-> <<>>]
    ELSE LET rules == OrEmptyList(file)
             v == _validate_ruleset(rules)
         IN IF v.err # "" THEN [err |-> v.err, rules |-> <<>>]
            ELSE [err |-> "", rules |-> rules.items]

\* A variant that keeps half as many entries.
CacheStore_half(cache, path, rules) ==
    Append(IF Len(cache) >= maxsize \div 2 THEN Tail(cache) ELSE cache,
           [path |-> path, rules |-> rules])

\* A new entry, evicting the least recently used one of a full cache.
CacheStore(cache, path, rules) ==
    Append(IF Len(cache) >= maxsize THEN Tail(cache) ELSE cache,
           [path |-> path, rules |-> rules])

\* Yields [cache, err, rules, read]: the cache afterwards, "" or the exception
\* class, the RuleSet, and whether the file was read.
_load_rules_cached(cache, path, file) ==
    IF path \in CachedPaths(cache)
    THEN LET i == CacheIndex(cache, path)
         IN [cache |-> Append(WithoutIndex(cache, i), cache[i]), err |-> "",
             rules |-> cache[i].rules, read |-> FALSE]
    ELSE LET r == ReadRules(file)
         IN IF r.err # ""
            THEN [cache |-> cache, err |-> r.err, rules |-> <<>>, read |-> TRUE]
            ELSE [cache |-> CacheStore(cache, path, r.rules), err |-> "",
                  rules |-> r.rules, read |-> TRUE]

\* clear_rule_cache
clear_rule_cache(cache) == <<>>

(***************************************************************************)
(* A call of _load_rules_cached by a thread, step by step.  The thread is  *)
(* [pc, local, pos, err, result, read]: local is what it parsed, pos the   *)
(* entry _validate_ruleset is at.  lru_cache looks the key up, calls the   *)
(* wrapped function without holding its lock on a miss, and afterwards     *)
(* stores the result unless the key has been added meanwhile.              *)
(***************************************************************************)
NewCaller ==
    [pc |-> "lookup", local |-> YamlEmpty, pos |-> 0, err |-> "", result |-> <<>>,
     read |-> FALSE]

\* The lookup of lru_cache.  Yields [c, cache].
CallerLookup(c, cache, path) ==
    IF path \in CachedPaths(cache)
    THEN LET i == CacheIndex(cache, path)
         IN [c |-> [c EXCEPT !.pc = "done", !.result = cache[i].rules],
             cache |-> Append(WithoutIndex(cache, i), cache[i])]
    ELSE [c |-> [c EXCEPT !.pc = "open"], cache |-> cache]

\* with open(rules_path) as f: rules = yaml.safe_load(f) or []
CallerRead(c, file) ==
    IF file.kind = "no_file"
    THEN [c EXCEPT !.pc = "done", !.err = "FileNotFoundError", !.read = TRUE]
    ELSE [c EXCEPT !.pc = "validate", !.local = OrEmptyList(file), !.pos = 1,
                   !.read = TRUE]

\* A variant that validates the first entry only.
CallerValidate_firstOnly(c) ==
    IF c.local.kind # "list" THEN [c EXCEPT !.pc = "done", !.err = "ValueError"]
    ELSE IF c.pos > 1 \/ c.pos > Len(c.local.items) THEN [c EXCEPT !.pc = "store"]
    ELSE LET v == ValidateFrom(<<c.local.items[c.pos]>>, 1)
         IN IF v.err # "" THEN [c EXCEPT !.pc = "done", !.err = v.err]
            ELSE [c EXCEPT !.pos = @ + 1]

\* _validate_ruleset: the isinstance check and one iteration of its loop,
\* or its return.
CallerValidate(c) ==
    IF c.local.kind # "list" THEN [c EXCEPT !.pc = "done", !.err = "ValueError"]
    ELSE IF c.pos > Len(c.local.items) THEN [c EXCEPT !.pc = "store"]
    ELSE LET v == ValidateFrom(<<c.local.items[c.pos]>>, 1)
         IN IF v.err # "" THEN [c EXCEPT !.pc = "done", !.err = v.err]
            ELSE [c EXCEPT !.pos = @ + 1]

\* return rules, and lru_cache storing the result.  Yields [c, cache].
CallerStore(c, cache, path) ==
    [c |-> [c EXCEPT !.pc = "done", !.result = c.local.items],
     cache |-> IF path \in CachedPaths(cache) THEN cache
               ELSE CacheStore(cache, path, c.local.items)]

(***************************************************************************)
(* evaluate_rules, one iteration of its loop at a time.                    *)
(***************************************************************************)
DigitChar(d) ==
    CASE d = 0 -> "0" [] d = 1 -> "1" [] d = 2 -> "2" [] d = 3 -> "3" [] d = 4 -> "4"
      [] d = 5 -> "5" [] d = 6 -> "6" [] d = 7 -> "7" [] d = 8 -> "8" [] OTHER -> "9"

\* str(n) for n >= 0
RECURSIVE Digits(_)
Digits(n) == IF n < 10 THEN <<DigitChar(n)>> ELSE Append(Digits(n \div 10), DigitChar(n % 10))

\* f"{r.get('id')}_ACT_{n}"
ActionId(rule_id, n) == rule_id \o <<"_", "A", "C", "T", "_">> \o Digits(n)

\* The Literal of Action.type.
ActionTypes ==
    {"tighten_match_types", "add_negatives", "budget_rebalance", "geo_exclude",
     "cap_pmax", "creative_refresh", "tracking_fix", "other"}

\* A variant that evaluates every condition before testing them, as
\* all([...]) over a list would.
RECURSIVE AllConds_eager(_, _, _, _, _)
AllConds_eager(conds, j, ir, reg, evald) ==
    IF j > Len(conds) THEN [ok |-> TRUE, err |-> "", evald |-> evald]
    ELSE LET r == eval_expr(conds[j].expr, ir, reg, DefaultMaxLength, DefaultMaxDepth)
             rest == AllConds_eager(conds, j + 1, ir, reg, Append(evald, j))
         IN IF r.err # "" THEN [ok |-> FALSE, err |-> r.err, evald |-> Append(evald, j)]
            ELSE [rest EXCEPT !.ok = @ /\ Truthy(r.val)]

\* A variant that fires a rule as soon as one condition is truthy.
RECURSIVE AllConds_any(_, _, _, _, _)
AllConds_any(conds, j, ir, reg, evald) ==
    IF j > Len(conds) THEN [ok |-> FALSE, err |-> "", evald |-> evald]
    ELSE LET r == eval_expr(conds[j].expr, ir, reg, DefaultMaxLength, DefaultMaxDepth)
         IN IF r.err # "" THEN [ok |-> FALSE, err |-> r.err, evald |-> Append(evald, j)]
            ELSE IF Truthy(r.val) THEN [ok |-> TRUE, err |-> "", evald |-> Append(evald, j)]
            ELSE AllConds_any(conds, j + 1, ir, reg, Append(evald, j))

\* all(bool(eval_expr(c["expr"], ir)) for c in conds) from condition j on.
\* Yields [ok, err, evald]: evald lists the conditions evaluated.
RECURSIVE AllConds(_, _, _, _, _)
AllConds(conds, j, ir, reg, evald) ==
    IF j > Len(conds) THEN [ok |-> TRUE, err |-> "", evald |-> evald]
    ELSE LET r == eval_expr(conds[j].expr, ir, reg, DefaultMaxLength, DefaultMaxDepth)
         IN IF r.err # "" THEN [ok |-> FALSE, err |-> r.err, evald |-> Append(evald, j)]
            ELSE IF ~Truthy(r.val) THEN [ok |-> FALSE, err |-> "", evald |-> Append(evald, j)]
            ELSE AllConds(conds, j + 1, ir, reg, Append(evald, j))

\* A variant that drops a string leaf whose evaluation fails.
_eval_value_or_expr_null(node, root, reg) ==
    [k \in DOMAIN node |->
        IF ~node[k].str THEN node[k].v
        ELSE LET e == eval_expr(node[k].expr, root, reg, DefaultMaxLength, DefaultMaxDepth)
             IN IF e.err # "" THEN VNone ELSE e.val]

\* _eval_value_or_expr on a mapping: every leaf resolved, a string leaf to
\* what eval_expr yields for it or, when that raises, to itself.
_eval_value_or_expr(node, root, reg) ==
    [k \in DOMAIN node |->
        IF ~node[k].str THEN node[k].v
        ELSE LET e == eval_expr(node[k].expr, root, reg, DefaultMaxLength, DefaultMaxDepth)
             IN IF e.err # "" THEN node[k].v ELSE e.val]

\* The keys of ActionImpact and the Literal of its risk.
FloatFields == {"spend_savings_usd", "revenue_lift_usd"}
RiskLabels == {<<"l", "o", "w">>, <<"m", "e", "d", "i", "u", "m">>, <<"h", "i", "g", "h">>}

\* Whether a string reads as a float: digits only, for the strings here.
ReadsAsFloat(chars) ==
    chars # <<>> /\ \A i \in 1..Len(chars) : chars[i] \in {DigitChar(d) : d \in 0..9}

\* ActionImpact(**exp_imp): "" or the exception class.  An Optional[float]
\* key takes None, a number or a string that reads as one, risk one of its
\* labels; other keys are ignored.
ActionImpact(exp_imp) ==
    IF \A k \in DOMAIN exp_imp :
          LET v == exp_imp[k]
          IN /\ k \in FloatFields =>
                   IsNone(v) \/ v.t \in {"int", "float"} \/ (IsStr(v) /\ ReadsAsFloat(v.s))
             /\ k = "risk" => IsStr(v) /\ v.s \in RiskLabels
    THEN "" ELSE "ValidationError"

\* `if exp_imp: impact = ActionImpact(**exp_imp)`.  Yields [err, attached,
\* fields]: an empty resolved tree attaches nothing.
AttachImpact(exp_imp) ==
    IF DOMAIN exp_imp = {} THEN [err |-> "", attached |-> FALSE, fields |-> exp_imp]
    ELSE [err |-> ActionImpact(exp_imp), attached |-> TRUE, fields |-> exp_imp]

\* Lines 115-119 of evaluate_rules.
ExpectedImpact(r, ir, reg) ==
    AttachImpact(_eval_value_or_expr(r.expected_impact, ir, reg))

\* A variant that numbers the Actions per rule.
Synthesize_perRule(r, src, n, impact) ==
    [err |-> impact.err,
     action |-> [id |-> r.id \o <<"_", "A", "C", "T", "_">> \o <<"1">>,
                 type |-> IF r.type = "" THEN "other" ELSE r.type,
                 priority |-> IF r.priority = 0 THEN 3 ELSE r.priority,
                 confidence |-> VFloat(9, 10), source_rule_id |-> r.id, src |-> src,
                 expected_impact |-> [attached |-> impact.attached,
                                      fields |-> impact.fields]]]

\* The Action a fired rule is made into; src is the rule's position and
\* impact its resolved expected_impact.  Yields [err, action]: rendering a
\* justification template may raise, ActionImpact(...) validates the resolved
\* impact, Action(...) validates type and priority.
Synthesize(r, src, n, impact) ==
    LET type == IF r.type = "" THEN "other" ELSE r.type
        priority == IF r.priority = 0 THEN 3 ELSE r.priority
        action == [id |-> ActionId(r.id, n), type |-> type, priority |-> priority,
                   confidence |-> VFloat(9, 10), source_rule_id |-> r.id, src |-> src,
                   expected_impact |-> [attached |-> impact.attached,
                                        fields |-> impact.fields]]
    IN IF r.template = "bad" THEN [err |-> "TemplateSyntaxError", action |-> action]
       ELSE IF impact.err # "" THEN [err |-> impact.err, action |-> action]
       ELSE IF type \notin ActionTypes \/ priority < 1 \/ priority > 5
       THEN [err |-> "ValidationError", action |-> action]
       ELSE [err |-> "", action |-> action]

\* A variant that keeps the list ordered by priority.
AppendAction_sorted(actions, action) ==
    LET before == {k \in 1..Len(actions) : actions[k].priority <= action.priority}
        n == Cardinality(before)
    IN SubSeq(actions, 1, n) \o <<action>> \o SubSeq(actions, n + 1, Len(actions))

\* actions.append(Action(...))
AppendAction(actions, action) == Append(actions, action)

\* The state of one call of evaluate_rules.
IdleRun ==
    [status |-> "idle", path |-> 0, ir |-> VNone, rules |-> <<>>, pos |-> 0,
     actions |-> <<>>, visited |-> <<>>, fired |-> <<>>, evald |-> <<>>,
     err |-> "", returned |-> <<>>]

\* rules = _load_rules_cached(rules_path); actions = []
BeginRun(path, ir, load) ==
    IF load.err # ""
    THEN [IdleRun EXCEPT !.status = "raised", !.path = path, !.ir = ir, !.err = load.err]
    ELSE [IdleRun EXCEPT !.status = "running", !.path = path, !.ir = ir,
                         !.rules = load.rules, !.pos = 1]

\* A variant that catches a failing condition per rule and goes on.
LoopBody_catch(run, reg) ==
    LET r == run.rules[run.pos]
        c == AllConds(IfAll(r), 1, run.ir, reg, <<>>)
        seen == [run EXCEPT !.visited = Append(@, run.pos),
                            !.evald = Append(@, c.evald)]
        a == Synthesize(r, run.pos, Len(run.actions) + 1,
                        ExpectedImpact(r, run.ir, reg))
    IN IF c.err # "" \/ ~c.ok THEN [seen EXCEPT !.pos = @ + 1]
       ELSE IF a.err # ""
       THEN [seen EXCEPT !.status = "raised", !.err = a.err, !.fired = Append(@, run.pos)]
       ELSE [seen EXCEPT !.pos = @ + 1, !.fired = Append(@, run.pos),
                         !.actions = AppendAction(@, a.action)]

\* One iteration of `for r in rules`.
LoopBody(run, reg) ==
    LET r == run.rules[run.pos]
        c == AllConds(IfAll(r), 1, run.ir, reg, <<>>)
        seen == [run EXCEPT !.visited = Append(@, run.pos),
                            !.evald = Append(@, c.evald)]
        a == Synthesize(r, run.pos, Len(run.actions) + 1,
                        ExpectedImpact(r, run.ir, reg))
    IN IF c.err # "" THEN [seen EXCEPT !.status = "raised", !.err = c.err]
       ELSE IF ~c.ok THEN [seen EXCEPT !.pos = @ + 1]
       ELSE IF a.err # ""
       THEN [seen EXCEPT !.status = "raised", !.err = a.err, !.fired = Append(@, run.pos)]
       ELSE [seen EXCEPT !.pos = @ + 1, !.fired = Append(@, run.pos),
                         !.actions = AppendAction(@, a.action)]

\* return actions
EndRun(run) == [run EXCEPT !.status = "returned", !.returned = run.actions]

(***************************************************************************)
(* The rule sources the loader and the engine are run on.                  *)
(***************************************************************************)
Id_R1 == <<"R", "1">>
Id_R2 == <<"R", "2">>

\* value('x') > 10
E_XGt10 == Compare(E_Value(K_x), <<"Gt">>, <<E_Int(10)>>)
\* min(1, 2) == 1
E_MinIs1 == Compare(Call("min", <<E_Int(1), E_Int(2)>>), <<"Eq">>, <<E_Int(1)>>)

\* Entries that pass validation.
GoodRules ==
    {Rule(Id_R1, "list", <<Cond(E_XGt10)>>, 2, "other", "none"),
     Rule(Id_R2, "list", <<>>, 5, "add_negatives", "ok"),
     Rule(Id_R2, "absent", <<>>, 0, "", "none"),
     Rule(Id_R1, "list", <<Cond(E_True), Cond(E_Value(<<"m">>))>>, 1, "other", "none"),
     Rule(Id_R1, "list", <<Cond(E_Int(0)), Cond(E_DivZero)>>, 3, "other", "none"),
     Rule(Id_R2, "list", <<Cond(E_Str(<<>>))>>, 3, "other", "none"),
     Rule(Id_R2, "list", <<Cond(E_DivZero)>>, 3, "other", "none"),
     Rule(Id_R1, "list", <<Cond(E_XGt10), Cond(Call("f", <<>>))>>, 4, "other", "ok"),
     Rule(Id_R2, "list", <<Cond(E_Int(5))>>, 9, "other", "none"),
     Rule(Id_R1, "list", <<Cond(E_True)>>, 3, "other", "bad")}

\* Entries with a violation, one of each kind.
BadRules ==
    {RuleNotMapping,
     Rule(<<>>, "list", <<Cond(E_True)>>, 3, "other", "none"),
     Rule(Id_R1, "not_list", <<>>, 3, "other", "none"),
     Rule(Id_R1, "list", <<Cond(E_True), CondNotMapping>>, 3, "other", "none"),
     Rule(Id_R2, "list", <<CondNoExpr>>, 3, "other", "none"),
     Rule(Id_R2, "list", <<CondNotStr>>, 3, "other", "none"),
     Rule(Id_R1, "list", <<CondBadSyntax>>, 3, "other", "none")}

SeqsUpTo(S, n) == UNION {[1..k -> S] : k \in 0..n}

\* Rule files: lists of up to MaxRules entries, and the files that hold no list.
ListFiles(S) == {YamlList(items) : items \in SeqsUpTo(S, MaxRules)}
OtherFiles == {YamlEmpty, YamlFalsy, YamlTruthy, NoFile}

\* The paths of rule files, and the fact records rules are evaluated against.
Paths == {1, 2}
IRs == {VDict(1), VDict(2)}

(***************************************************************************)
(* State.                                                                  *)
(***************************************************************************)
VARIABLES
    registry,   \* dsl._registry, the default registry
    private,    \* the DSLRegistry instances constructed besides it, by name
    regCall,    \* a direct call of a registry method: its arguments and outcome
    evalCall,   \* a direct call of eval_expr: its arguments and, once made, its result
    fs,         \* path -> what yaml.safe_load yields for the file there
    cache,      \* the lru_cache of _load_rules_cached
    run,        \* the current (or last) call of evaluate_rules
    first,      \* the first call of evaluate_rules that returned: its arguments and ids
    lastLoad,   \* the last call of _load_rules_cached: its argument and outcome
    history,    \* the RuleSets loaded since the cache was last cleared (see Touch)
    callers     \* the threads inside _load_rules_cached, each at its own step

vars == <<registry, private, regCall, evalCall, fs, cache, run, first, lastLoad, history, callers>>
engineVars == <<fs, cache, run, first, lastLoad, history, callers>>

\* The private instances: DSLRegistry() constructed twice.
Privates == {"p1", "p2"}
NoPrivate == [p \in Privates |-> NewRegistry]

\* No registry method called yet.
NoRegCall ==
    [done |-> FALSE, on |-> "_registry", op |-> "", name |-> "", func |-> "",
     err |-> "", before |-> [t \in {"_registry"} \cup Privates |-> NewRegistry]]

\* A call eval_expr(expr, root, max_length=..., max_depth=...) not yet made;
\* its registry argument is None or the name of a private instance.
EvalCallOf(expr, root, max_length, max_depth) ==
    [done |-> FALSE, expr |-> expr, root |-> root, registry |-> "None",
     max_length |-> max_length, max_depth |-> max_depth,
     res |-> Res(VNone, "", NewSafeEval)]

\* The call on the shortest text of a tree, with the default max_length.
EvalCall(tree, root, max_depth) ==
    EvalCallOf(ExprOf(tree), root, DefaultMaxLength, max_depth)

NoLoad ==
    [done |-> FALSE, path |-> 0, file |-> YamlEmpty, cached |-> FALSE, err |-> "",
     rules |-> <<>>, read |-> FALSE, held |-> FALSE, heldRules |-> <<>>, others |-> 0]
NoFirst == [has |-> FALSE, path |-> 0, ir |-> VNone, ids |-> <<>>]

\* The record of the paths loaded: [path, rules] of every path a call of
\* _load_rules_cached has returned a RuleSet for since the cache was last
\* cleared, least recently used first; nothing is ever dropped from it.
Touch(hist, path, load) ==
    IF load.err # "" THEN hist
    ELSE LET kept == SelectSeq(hist, LAMBDA h : h.path # path)
         IN Append(kept, [path |-> path, rules |-> load.rules])

\* What a call of _load_rules_cached leaves in lastLoad.  held, heldRules and
\* others describe the time of the call: whether the path had been loaded
\* since the last clear, the RuleSet it then yielded, and how many other
\* paths have been used since.
LoadRecord(path, load) ==
    LET held == path \in CachedPaths(history)
        i == CacheIndex(history, path)
    IN [done |-> TRUE, path |-> path, file |-> fs[path],
        cached |-> path \in CachedPaths(cache),
        err |-> load.err, rules |-> load.rules, read |-> load.read,
        held |-> held,
        heldRules |-> IF held THEN history[i].rules ELSE <<>>,
        others |-> IF held THEN Len(history) - i ELSE 0]

\* No thread is inside _load_rules_cached.
NoCallers == <<>>

Ids(actions) == [k \in 1..Len(actions) |-> actions[k].id]

Running == run.status = "running"

(***************************************************************************)
(* Operations on the default registry, for the names and helpers the       *)
(* embedding code registers.                                               *)
(***************************************************************************)
RegisterDslFunction(names, helpers) ==
    \E name \in names, func \in helpers :
        /\ registry' = register_function(registry, name, func).reg
        /\ UNCHANGED <<private, regCall, evalCall, engineVars>>

RegisterDslAccessor(names, helpers) ==
    \E name \in names, func \in helpers :
        /\ registry' = register_accessor(registry, name, func).reg
        /\ UNCHANGED <<private, regCall, evalCall, engineVars>>

ClearRegistry ==
    /\ registry' = clear(registry)
    /\ UNCHANGED <<private, regCall, evalCall, engineVars>>

(***************************************************************************)
(* Calls of the methods of any registry, the default one or a private one, *)
(* with the call left in regCall.                                          *)
(***************************************************************************)
RegistryNames == {"_registry"} \cup Privates

\* Every registry there is, by name.
AllRegistries == [t \in RegistryNames |-> IF t = "_registry" THEN registry ELSE private[t]]

\* A method call on registry t with outcome r = [reg, err]: the instance's
\* two dicts are its own, so no other instance changes.
RegistryCall(t, op, name, func, r) ==
    /\ registry' = IF t = "_registry" THEN r.reg ELSE registry
    /\ private' = IF t \in Privates THEN [private EXCEPT ![t] = r.reg] ELSE private
    /\ regCall' = [done |-> TRUE, on |-> t, op |-> op, name |-> name, func |-> func,
                   err |-> r.err, before |-> AllRegistries]
    /\ UNCHANGED <<evalCall, engineVars>>

RegisterFunction(names, helpers) ==
    \E t \in RegistryNames, name \in names, func \in helpers :
        RegistryCall(t, "register_function", name, func,
                     register_function(AllRegistries[t], name, func))

RegisterAccessor(names, helpers) ==
    \E t \in RegistryNames, name \in names, func \in helpers :
        RegistryCall(t, "register_accessor", name, func,
                     register_accessor(AllRegistries[t], name, func))

Clear ==
    \E t \in RegistryNames :
        RegistryCall(t, "clear", "", "", [reg |-> clear(AllRegistries[t]), err |-> ""])

(***************************************************************************)
(* Operations of the loader and the engine.                                *)
(***************************************************************************)
\* A direct call _load_rules_cached(path).
LoadRules(path) ==
    LET load == _load_rules_cached(cache, path, fs[path])
    IN /\ cache' = load.cache
       /\ lastLoad' = LoadRecord(path, load)
       /\ history' = Touch(history, path, load)
       /\ UNCHANGED <<registry, private, regCall, evalCall, fs, run, first, callers>>

ClearRuleCache ==
    /\ cache' = clear_rule_cache(cache)
    /\ history' = <<>>
    /\ UNCHANGED <<registry, private, regCall, evalCall, fs, run, first, lastLoad, callers>>

\* The rules file at path is replaced.
WriteFile(path, file) ==
    /\ fs' = [fs EXCEPT ![path] = file]
    /\ UNCHANGED <<registry, private, regCall, evalCall, cache, run, first, lastLoad, history, callers>>

\* evaluate_rules(ir, path) up to its loop.
StartRun(path, ir) ==
    LET load == _load_rules_cached(cache, path, fs[path])
    IN /\ ~Running
       /\ cache' = load.cache
       /\ lastLoad' = LoadRecord(path, load)
       /\ run' = BeginRun(path, ir, load)
       /\ history' = Touch(history, path, load)
       /\ UNCHANGED <<registry, private, regCall, evalCall, fs, first, callers>>

\* One iteration of the loop of evaluate_rules.
RuleStep ==
    /\ Running
    /\ run.pos <= Len(run.rules)
    /\ run' = LoopBody(run, registry)
    /\ UNCHANGED <<registry, private, regCall, evalCall, fs, cache, first, lastLoad, history, callers>>

\* evaluate_rules returns.
ReturnRun ==
    /\ Running
    /\ run.pos > Len(run.rules)
    /\ run' = EndRun(run)
    /\ first' = IF first.has THEN first
                ELSE [has |-> TRUE, path |-> run.path, ir |-> run.ir, ids |-> Ids(run.actions)]
    /\ UNCHANGED <<registry, private, regCall, evalCall, fs, cache, lastLoad, history, callers>>

\* The steps of thread t inside _load_rules_cached(path).
Lookup(t, path) ==
    LET r == CallerLookup(callers[t], cache, path)
    IN /\ callers[t].pc = "lookup"
       /\ callers' = [callers EXCEPT ![t] = r.c]
       /\ cache' = r.cache
       /\ UNCHANGED <<registry, private, regCall, evalCall, fs, run, first, lastLoad, history>>

Read(t, path) ==
    /\ callers[t].pc = "open"
    /\ callers' = [callers EXCEPT ![t] = CallerRead(@, fs[path])]
    /\ UNCHANGED <<registry, private, regCall, evalCall, fs, cache, run, first, lastLoad, history>>

Validate(t) ==
    /\ callers[t].pc = "validate"
    /\ callers' = [callers EXCEPT ![t] = CallerValidate(@)]
    /\ UNCHANGED <<registry, private, regCall, evalCall, fs, cache, run, first, lastLoad, history>>

Store(t, path) ==
    LET r == CallerStore(callers[t], cache, path)
    IN /\ callers[t].pc = "store"
       /\ callers' = [callers EXCEPT ![t] = r.c]
       /\ cache' = r.cache
       /\ UNCHANGED <<registry, private, regCall, evalCall, fs, run, first, lastLoad, history>>

(***************************************************************************)
(* SpecExpr: one call of eval_expr on an expression of BoolExprs, after    *)
(* the embedding code has set up the default registry.                     *)
(***************************************************************************)
EvalExpr ==
    /\ ~evalCall.done
    /\ evalCall' =
          [evalCall EXCEPT
              !.done = TRUE,
              !.res = eval_expr(evalCall.expr, evalCall.root,
                                SafeEvalRegistry(evalCall.registry, registry, private),
                                evalCall.max_length, evalCall.max_depth)]
    /\ UNCHANGED <<registry, private, regCall, engineVars>>

InitEngineIdle ==
    /\ fs = [p \in Paths |-> YamlEmpty]
    /\ cache = <<>>
    /\ run = IdleRun
    /\ first = NoFirst
    /\ lastLoad = NoLoad
    /\ history = <<>>
    /\ callers = NoCallers

InitExpr ==
    /\ registry = NewRegistry
    /\ private = NoPrivate
    /\ regCall = NoRegCall
    /\ \E tree \in BoolExprs, root \in Roots, max_depth \in DepthLimits :
          evalCall = EvalCall(tree, root, max_depth)
    /\ InitEngineIdle

NextExpr ==
    \/ EvalExpr
    \/ ~evalCall.done /\ RegisterDslFunction({"f"}, {"zero", "one", "boom"})
    \/ ~evalCall.done /\ RegisterDslAccessor({"g"}, {"acc_zero", "acc_boom"})
    \/ ~evalCall.done /\ ClearRegistry

SpecExpr == InitExpr /\ [][NextExpr]_vars

(***************************************************************************)
(* SpecEval: one call of eval_expr on an arithmetic expression, a          *)
(* comparison, a chain of comparisons or a call, after the embedding code  *)
(* has registered helpers.                                                 *)
(***************************************************************************)
\* value('m') is null for every fact record; value('x') is a number.
ArithOperands ==
    {E_None, E_Value(<<"m">>), E_Int(0), E_Int(5), E_Str(<<"a">>), E_True,
     E_Value(K_x), BinOp(E_Int(5), "Div", E_Int(2))}

ArithExprs ==
    {BinOp(a, op, b) : op \in ARITHMETIC_OPS, a \in ArithOperands, b \in ArithOperands}
    \cup {BinOp(a, "Pow", b) : a \in {E_None, E_Int(5)}, b \in {E_None, E_Int(5)}}

\* value('a') is a dict, null or missing, depending on the fact record.
CompareOperands ==
    {E_None, E_Value(K_a), E_Int(0), E_Int(5), E_Str(<<"a">>), E_Str(<<"b">>), E_False}

CompareExprs ==
    {Compare(a, <<op>>, <<b>>) :
        op \in COMPARISON_OPS, a \in CompareOperands, b \in CompareOperands}

\* a OP1 b OP2 c, with a last operand that raises or calls a helper.
ChainExprs ==
    {Compare(a, <<op1, op2>>, <<b, c>>) :
        op1 \in {"Lt", "Eq", "NotEq"}, op2 \in {"Lt", "Eq", "NotEq"},
        a \in {E_Int(1), E_Int(5), E_None}, b \in {E_Int(1), E_Int(5), E_None},
        c \in {E_Int(3), E_DivZero, Call("f", <<>>)}}

CallArgs ==
    {<<>>, <<E_Int(1)>>, <<E_Int(1), E_Int(2)>>, <<E_DivZero>>, <<E_Str(K_x)>>,
     <<E_Str(K_x), E_Int(7)>>}

\* h is never registered.
CallExprs ==
    {Call(name, args) : name \in {"value", "min", "f", "g", "h"}, args \in CallArgs}
    \cup {CallAttr(<<>>), Call("f", <<Call("g", <<>>)>>), Call("h", <<Call("f", <<>>)>>)}

\* Dotted paths: present, missing, null on the way, through a number, empty
\* segments.
ValuePaths ==
    {<<"x">>, <<"f">>, <<"a">>, <<"a", ".", "b">>, <<"a", ".", "b", ".", "x">>,
     <<"m">>, <<>>, <<"a", ".">>, <<"a", ".", "m">>, <<"x", ".", "b">>, <<"m", ".", "x">>}

ValueExprs ==
    {E_Value(path) : path \in ValuePaths}
    \cup {Call("value", <<E_Str(path), d>>) :
            path \in ValuePaths, d \in {E_Int(0), E_Str(<<"a">>), E_None}}

EvalExprs == ArithExprs \cup CompareExprs \cup ChainExprs \cup CallExprs \cup ValueExprs

\* Fact records, and roots that are no mapping.
EvalRoots == Roots \cup {VStr(<<"a">>)}

InitEval ==
    /\ registry = NewRegistry
    /\ private = NoPrivate
    /\ regCall = NoRegCall
    /\ \E tree \in EvalExprs, root \in EvalRoots :
          evalCall = EvalCall(tree, root, DefaultMaxDepth)
    /\ InitEngineIdle

NextEval ==
    \/ EvalExpr
    \/ ~evalCall.done /\ RegisterDslFunction({"f"}, {"one", "boom"})
    \/ ~evalCall.done /\ RegisterDslAccessor({"g"}, {"acc_zero", "acc_boom", "factory_boom"})
    \/ ~evalCall.done /\ RegisterDslAccessor({"min"}, {"acc_zero"})

SpecEval == InitEval /\ [][NextEval]_vars

(***************************************************************************)
(* SpecLimits: one call of eval_expr on a text whose length is about       *)
(* max_length, well-formed or not, or on up to MaxNest nested `not`.       *)
(***************************************************************************)
\* not (not (... True))
RECURSIVE NestedNot(_)
NestedNot(k) == IF k = 0 THEN E_True ELSE UnaryOp("Not", NestedNot(k - 1))

LimitTrees == {NestedNot(k) : k \in 0..MaxNest}

\* The max_length values eval_expr is called with.
LengthLimits == {8, DefaultMaxLength}

\* Texts of max_length - 1, max_length and max_length + 1 characters (a
\* well-formed text can be made longer by blanks), and the shortest texts.
LimitExprs(max_length) ==
    {BadSyntax(len) : len \in {max_length - 1, max_length, max_length + 1}}
    \cup {Expr(len, tree) : len \in {max_length - 1, max_length, max_length + 1},
                            tree \in {t \in LimitTrees : TextLen(t) <= max_length - 1}}
    \cup {ExprOf(tree) : tree \in LimitTrees}

InitLimits ==
    /\ registry = NewRegistry
    /\ private = NoPrivate
    /\ regCall = NoRegCall
    /\ \E max_length \in LengthLimits, max_depth \in DepthLimits, root \in IRs :
          \E expr \in LimitExprs(max_length) :
             evalCall = EvalCallOf(expr, root, max_length, max_depth)
    /\ InitEngineIdle

NextLimits == EvalExpr

SpecLimits == InitLimits /\ [][NextLimits]_vars

(***************************************************************************)
(* SpecRun: one call of evaluate_rules on a rules file of up to MaxRules   *)
(* entries, valid or not, with the helper f registered or not.             *)
(***************************************************************************)
NoEvalCall == [EvalCall(E_None, VNone, 0) EXCEPT !.done = TRUE]

InitRun ==
    /\ registry = NewRegistry
    /\ private = NoPrivate
    /\ regCall = NoRegCall
    /\ evalCall = NoEvalCall
    /\ \E file \in ListFiles(GoodRules \cup BadRules) \cup OtherFiles :
          fs = [p \in Paths |-> IF p = 1 THEN file ELSE YamlEmpty]
    /\ cache = <<>>
    /\ run = IdleRun
    /\ first = NoFirst
    /\ lastLoad = NoLoad
    /\ history = <<>>
    /\ callers = NoCallers

NextRun ==
    \/ run.status = "idle" /\ RegisterDslFunction({"f"}, {"one"})
    \/ run.status = "idle" /\ \E ir \in IRs : StartRun(1, ir)
    \/ RuleStep
    \/ ReturnRun

SpecRun == InitRun /\ [][NextRun]_vars

(***************************************************************************)
(* Spec: calls of evaluate_rules and of the loader over two rules files,   *)
(* with registrations in the default registry between the calls.           *)
(***************************************************************************)
\* Rules whose conditions call helpers.
HelperRules ==
    {Rule(Id_R1, "list", <<Cond(E_MinIs1)>>, 3, "other", "none"),
     Rule(Id_R2, "list", <<Cond(E_XGt10)>>, 3, "other", "none"),
     Rule(Id_R2, "list", <<Cond(E_Value(K_flag)), Cond(Call("f", <<>>))>>, 3, "other", "none")}

Init ==
    /\ registry = NewRegistry
    /\ private = NoPrivate
    /\ regCall = NoRegCall
    /\ evalCall = NoEvalCall
    /\ \E file \in ListFiles(HelperRules) :
          fs = [p \in Paths |-> IF p = 1 THEN file ELSE YamlList(<<>>)]
    /\ cache = <<>>
    /\ run = IdleRun
    /\ first = NoFirst
    /\ lastLoad = NoLoad
    /\ history = <<>>
    /\ callers = NoCallers

Next ==
    \/ \E path \in Paths, ir \in IRs : StartRun(path, ir)
    \/ RuleStep
    \/ ReturnRun
    \/ ~Running /\ \E path \in Paths : LoadRules(path)
    \/ ~Running /\ RegisterDslFunction({"f"}, {"zero", "one"})
    \/ ~Running /\ RegisterDslAccessor({"g", "min"}, {"acc_zero"})

Spec == Init /\ [][Next]_vars

(***************************************************************************)
(* SpecCache: loads of one rules file among loads of up to MaxFresh other  *)
(* files, with the file rewritten and the cache cleared in between.  The   *)
(* other files are loaded in the order of their paths.                     *)
(***************************************************************************)
ThePath == 1
OtherPaths == 2..(MaxFresh + 1)

CacheFiles ==
    {YamlList(<<Rule(Id_R1, "list", <<Cond(E_True)>>, 3, "other", "none")>>),
     YamlList(<<Rule(Id_R2, "list", <<>>, 3, "other", "none")>>),
     YamlTruthy}

\* The other paths loaded since the cache was last cleared.
OthersLoaded == CachedPaths(history) \ {ThePath}

InitCache ==
    /\ registry = NewRegistry
    /\ private = NoPrivate
    /\ regCall = NoRegCall
    /\ evalCall = NoEvalCall
    /\ \E file \in CacheFiles :
          fs = [p \in {ThePath} \cup OtherPaths |->
                   IF p = ThePath THEN file ELSE YamlList(<<>>)]
    /\ cache = <<>>
    /\ run = IdleRun
    /\ first = NoFirst
    /\ lastLoad = NoLoad
    /\ history = <<>>
    /\ callers = NoCallers

NextCache ==
    \/ ~Running /\ LoadRules(ThePath)
    \/ ~Running /\ Cardinality(OthersLoaded) < MaxFresh
                /\ LoadRules(Cardinality(OthersLoaded) + 2)
    \/ ~Running /\ ClearRuleCache
    \/ ~Running /\ \E file \in CacheFiles \ {fs[ThePath]} : WriteFile(ThePath, file)
    \/ StartRun(ThePath, VDict(1))
    \/ RuleStep
    \/ ReturnRun

SpecCache == InitCache /\ [][NextCache]_vars

(***************************************************************************)
(* SpecRace: two threads call _load_rules_cached on the same path, not yet *)
(* cached, and their steps interleave.                                     *)
(***************************************************************************)
Threads == {1, 2}

RaceRules ==
    {Rule(Id_R1, "list", <<Cond(E_True)>>, 3, "other", "none"),
     Rule(Id_R2, "list", <<Cond(E_XGt10)>>, 3, "other", "none"),
     Rule(Id_R2, "list", <<CondBadSyntax>>, 3, "other", "none"),
     RuleNotMapping}

InitRace ==
    /\ registry = NewRegistry
    /\ private = NoPrivate
    /\ regCall = NoRegCall
    /\ evalCall = NoEvalCall
    /\ \E file \in ListFiles(RaceRules) \cup {NoFile, YamlTruthy, YamlEmpty} :
          fs = [p \in Paths |-> IF p = ThePath THEN file ELSE YamlEmpty]
    /\ cache = <<>>
    /\ run = IdleRun
    /\ first = NoFirst
    /\ lastLoad = NoLoad
    /\ history = <<>>
    /\ callers = [t \in Threads |-> NewCaller]

NextRace ==
    \E t \in Threads :
        \/ Lookup(t, ThePath)
        \/ Read(t, ThePath)
        \/ Validate(t)
        \/ Store(t, ThePath)

SpecRace == InitRace /\ [][NextRace]_vars

(***************************************************************************)
(* SpecRegistry: registrations and clears on the default registry and on   *)
(* two private ones, then one call of eval_expr given one of them or none. *)
(***************************************************************************)
\* The names and helpers the calls are made with; "min" and "value" are
\* names of built-ins.
FunctionNames == {"f", "min"}
AccessorNames == {"f", "value"}
Functions == {"one", "not_callable"}
Factories == {"acc_zero", "not_callable"}

\* f() and min(1, 2)
RegistryExprs == {Call("f", <<>>), Call("min", <<E_Int(1), E_Int(2)>>)}

InitRegistry ==
    /\ registry = NewRegistry
    /\ private = NoPrivate
    /\ regCall = NoRegCall
    /\ \E tree \in RegistryExprs, given \in {"None"} \cup Privates :
          evalCall = [EvalCall(tree, VNone, DefaultMaxDepth) EXCEPT !.registry = given]
    /\ InitEngineIdle

NextRegistry ==
    \/ ~evalCall.done /\ RegisterFunction(FunctionNames, Functions)
    \/ ~evalCall.done /\ RegisterAccessor(AccessorNames, Factories)
    \/ ~evalCall.done /\ Clear
    \/ EvalExpr

SpecRegistry == InitRegistry /\ [][NextRegistry]_vars

(***************************************************************************)
(* SpecLoad: loads of, and runs over, a rules file whose conditions are    *)
(* well-formed or not and about max_length long or short.                  *)
(***************************************************************************)
\* Conditions by the length of their text: `True`, and `True` followed by
\* blanks up to max_length and max_length + 1 characters.
LoadConds ==
    {Cond(E_True), CondBadSyntax,
     [kind |-> "ok", expr |-> Expr(DefaultMaxLength, E_True)],
     [kind |-> "ok", expr |-> Expr(DefaultMaxLength + 1, E_True)],
     [kind |-> "ok", expr |-> BadSyntax(DefaultMaxLength + 1)]}

LoadEntries ==
    {Rule(id, "list", <<c>>, 3, "other", "none") : id \in {Id_R1, Id_R2}, c \in LoadConds}
    \cup {Rule(Id_R1, "list", <<Cond(E_True), c>>, 3, "other", "none") : c \in LoadConds}

InitLoad ==
    /\ registry = NewRegistry
    /\ private = NoPrivate
    /\ regCall = NoRegCall
    /\ evalCall = NoEvalCall
    /\ \E file \in ListFiles(LoadEntries) :
          fs = [p \in Paths |-> IF p = 1 THEN file ELSE YamlEmpty]
    /\ cache = <<>>
    /\ run = IdleRun
    /\ first = NoFirst
    /\ lastLoad = NoLoad
    /\ history = <<>>
    /\ callers = NoCallers

NextLoad ==
    \/ ~Running /\ LoadRules(1)
    \/ \E ir \in IRs : StartRun(1, ir)
    \/ RuleStep
    \/ ReturnRun

SpecLoad == InitLoad /\ [][NextLoad]_vars

(***************************************************************************)
(* SpecImpact: one call of evaluate_rules over rules that fire and carry   *)
(* an expected_impact, with the helper f registered or not.                *)
(***************************************************************************)
\* String leaves: texts that evaluate (`1+1`, `value('x')`, `f()` once f is
\* registered) and texts whose evaluation fails, one for each way of failing.
S_Sum == StrLeaf(<<"1", "+", "1">>, BinOp(E_Int(1), "Add", E_Int(1)))
S_Value ==
    StrLeaf(<<"v", "a", "l", "u", "e", "(", "'", "x", "'", ")">>, E_Value(K_x))
S_High == StrLeaf(<<"h", "i", "g", "h">>, Name("high"))
S_NA == StrLeaf(<<"n", "/", "a">>, BinOp(Name("n"), "Div", Name("a")))
S_DivZero == StrLeaf(<<"1", "/", "0">>, E_DivZero)
S_Helper == StrLeaf(<<"f", "(", ")">>, Call("f", <<>>))
S_BadSyntax == StrLeafBadSyntax(<<"1", " ", "+">>)
S_Deep ==
    StrLeaf(Repeat(<<"n", "o", "t", " ">>, DefaultMaxDepth) \o <<"T", "r", "u", "e">>,
            NestedNot(DefaultMaxDepth))

\* {k: leaf}
Impact1(k, leaf) == [n \in {k} |-> leaf]

ImpactTrees ==
    {NoImpact}
    \cup {Impact1("note", l) :
             l \in {S_High, S_NA, S_DivZero, S_Helper, S_BadSyntax, S_Deep}}
    \cup {Impact1("spend_savings_usd", l) :
             l \in {Leaf(VInt(5)), Leaf(VNone), S_Sum, S_Value, S_NA, S_Helper}}
    \cup {Impact1("risk", l) : l \in {S_High, S_DivZero}}
    \cup {[n \in {"revenue_lift_usd", "risk"} |->
              IF n = "risk" THEN S_High ELSE Leaf(VFloat(1, 2))]}

ImpactRules ==
    {[Rule(Id_R1, "list", <<Cond(E_True)>>, 3, "other", "none")
         EXCEPT !.expected_impact = tree] : tree \in ImpactTrees}

InitImpact ==
    /\ registry = NewRegistry
    /\ private = NoPrivate
    /\ regCall = NoRegCall
    /\ evalCall = NoEvalCall
    /\ \E file \in ListFiles(ImpactRules) :
          fs = [p \in Paths |-> IF p = 1 THEN file ELSE YamlEmpty]
    /\ cache = <<>>
    /\ run = IdleRun
    /\ first = NoFirst
    /\ lastLoad = NoLoad
    /\ history = <<>>
    /\ callers = NoCallers

NextImpact ==
    \/ run.status = "idle" /\ RegisterDslFunction({"f"}, {"one"})
    \/ run.status = "idle" /\ \E ir \in IRs : StartRun(1, ir)
    \/ RuleStep
    \/ ReturnRun

SpecImpact == InitImpact /\ [][NextImpact]_vars

(***************************************************************************)
(* Claims about eval_expr (SpecExpr).                                      *)
(***************************************************************************)
\* The environment of the call evalCall records.
CallEnv ==
    [root |-> evalCall.root, functions |-> registry.functions,
     accessors |-> registry.accessors, max_depth |-> evalCall.max_depth]

\* The node at addr evaluated on its own, at the depth it has in the tree.
Own(tree, addr, env) ==
    Visit(NodeAt(tree, addr), addr, [depth |-> Len(addr), trace |-> <<>>, calls |-> <<>>], env)

\* Whether a value of an operand decides the connective.
Decides(op, v) == IF op = "And" THEN ~Truthy(v) ELSE Truthy(v)

\* Every address the call entered a visit for or invoked a helper at.
Touched(res) == Range(res.st.trace) \cup {c.at : c \in Range(res.st.calls)}

\* C1: `and`/`or` stop at the first operand that decides the outcome (the
\* first falsy or null operand of `and`, the first truthy operand of `or`):
\* no later operand is visited, no helper below a later operand is invoked,
\* and the connective itself raises nothing.
C1_ShortCircuit ==
    (evalCall.done /\ evalCall.expr.parses) =>
        LET tree == evalCall.expr.tree
            res == evalCall.res
        IN \A p \in Addrs(tree, <<>>) :
              NodeAt(tree, p).k = "BoolOp" =>
                 \A i \in 1..Len(NodeAt(tree, p).args) :
                    LET o == Own(tree, Append(p, i), CallEnv)
                    IN (Append(p, i) \in Range(res.st.trace) /\ o.err = ""
                            /\ Decides(NodeAt(tree, p).op, o.val)) =>
                          /\ \A j \in (i + 1)..Len(NodeAt(tree, p).args) :
                                \A q \in Touched(res) : ~IsPrefix(Append(p, j), q)
                          /\ Own(tree, p, CallEnv).err = ""

\* `False and f() and (1/0)`-like: a decided connective whose later operand
\* would raise, evaluated without error.
C1_Witness ==
    /\ evalCall.done
    /\ evalCall.expr.tree = Expression(BoolOp("And", <<E_False, E_DivZero>>))
    /\ evalCall.res.err = ""
    /\ evalCall.res.val = VBool(FALSE)
    /\ evalCall.res.st.trace = << <<>>, <<1>>, <<1, 1>> >>

(***************************************************************************)
(* Claims about evaluate_rules (SpecRun).                                  *)
(***************************************************************************)
\* Condition j of a rule evaluated on its own against the fact record.
CondRes(r, j) ==
    eval_expr(IfAll(r)[j].expr, run.ir, registry, DefaultMaxLength, DefaultMaxDepth)

\* The falsy values: null, false, zero, the empty string, the empty mapping.
Falsy(v) ==
    \/ v.t = "none"
    \/ v.t \in {"bool", "int", "float"} /\ v.n = 0
    \/ v.t = "str" /\ Len(v.s) = 0
    \/ v.t = "dict" /\ DOMAIN Heap[v.n] = {}

AllTruthy(r) ==
    \A j \in 1..Len(IfAll(r)) : CondRes(r, j).err = "" /\ ~Falsy(CondRes(r, j).val)

\* The rules an Action of the list was made from.
Sources(actions) == {actions[k].src : k \in 1..Len(actions)}

\* C2: a rule fires iff every one of its conditions evaluates to a truthy
\* value (null, false, 0 and '' are falsy); a rule without conditions always
\* fires; the list returned holds an Action for exactly the rules that fired.
C2_FiresIffAllTruthy ==
    /\ \A k \in 1..Len(run.visited) :
          LET i == run.visited[k]
          IN (i \in Range(run.fired)) <=> AllTruthy(run.rules[i])
    /\ run.status = "returned" =>
          \A i \in 1..Len(run.rules) :
             /\ (i \in Sources(run.returned)) <=> AllTruthy(run.rules[i])
             /\ IfAll(run.rules[i]) = <<>> => i \in Sources(run.returned)

\* A run that returned the Action of a rule without conditions and skipped a
\* rule whose second condition is null.
C2_Witness ==
    /\ run.status = "returned"
    /\ Len(run.rules) = 2
    /\ \E i, k \in {1, 2} :
          /\ IfAll(run.rules[i]) = <<>>
          /\ Sources(run.returned) = {i}
          /\ k # i
          /\ Len(IfAll(run.rules[k])) = 2
          /\ CondRes(run.rules[k], 2).val = VNone
          /\ CondRes(run.rules[k], 2).err = ""

\* C4: when a condition that is evaluated raises, evaluate_rules raises that
\* error and the caller receives no list, whatever was synthesized before.
C4_ErrorAborts ==
    /\ \A k \in 1..Len(run.visited) :
          \A q \in 1..Len(run.evald[k]) :
             LET res == CondRes(run.rules[run.visited[k]], run.evald[k][q])
             IN res.err # "" =>
                   run.status = "raised" /\ run.err = res.err /\ k = Len(run.visited)
    /\ run.status = "raised" => run.returned = <<>>

\* A run that raised from a condition after it had synthesized an Action.
C4_Witness ==
    /\ run.status = "raised"
    /\ run.err = "ExpressionError"
    /\ Len(run.actions) = 1
    /\ Len(run.visited) = 2
    /\ run.returned = <<>>

\* The first condition of the rule that is falsy or raises (0 for none).
FirstStop(r) ==
    LET stops == {j \in 1..Len(IfAll(r)) :
                      CondRes(r, j).err # "" \/ Falsy(CondRes(r, j).val)}
    IN IF stops = {} THEN 0 ELSE CHOOSE j \in stops : \A m \in stops : j <= m

\* C5 as stated: every condition of every visited rule is evaluated.
C5_AllCondsEvaluated ==
    \A k \in 1..Len(run.visited) :
       Range(run.evald[k]) = 1..Len(IfAll(run.rules[run.visited[k]]))

\* C5, amended: the conditions of a rule are evaluated in order up to and
\* including the first one that is falsy or raises, and no further; a run
\* that returned has tested every rule in this way.
C5_CondsUpToFirstStop ==
    /\ \A k \in 1..Len(run.visited) :
          LET r == run.rules[run.visited[k]]
              last == IF FirstStop(r) = 0 THEN Len(IfAll(r)) ELSE FirstStop(r)
          IN run.evald[k] = [j \in 1..last |-> j]
    /\ run.status = "returned" => Len(run.visited) = Len(run.rules)

\* A run that returned although the rule [0, 1/0] was tested: its failing
\* second condition was not evaluated.
C5_Witness ==
    /\ run.status = "returned"
    /\ \E k \in 1..Len(run.visited) :
          LET r == run.rules[run.visited[k]]
          IN /\ Len(IfAll(r)) = 2
             /\ CondRes(r, 2).err = "ExpressionError"
             /\ run.evald[k] = <<1>>

DigitVal(c) ==
    CASE c = "0" -> 0 [] c = "1" -> 1 [] c = "2" -> 2 [] c = "3" -> 3 [] c = "4" -> 4
      [] c = "5" -> 5 [] c = "6" -> 6 [] c = "7" -> 7 [] c = "8" -> 8 [] c = "9" -> 9
      [] OTHER -> -1

\* The number an id ends with, after its last "_".
RECURSIVE SuffixNum(_)
SuffixNum(chars) ==
    IF chars = <<>> \/ DigitVal(chars[Len(chars)]) < 0 THEN 0
    ELSE 10 * SuffixNum(SubSeq(chars, 1, Len(chars) - 1)) + DigitVal(chars[Len(chars)])

\* C6: the k-th Action of a run has the id '<id of its rule>_ACT_<k>'; the ids
\* of a run are pairwise distinct; the number of Actions emitted so far is the
\* suffix of the last id.
C6_ActionIds ==
    /\ \A k \in 1..Len(run.actions) :
          /\ run.actions[k].id =
                run.rules[run.actions[k].src].id \o <<"_", "A", "C", "T", "_">> \o Digits(k)
          /\ run.actions[k].source_rule_id = run.rules[run.actions[k].src].id
    /\ \A k, m \in 1..Len(run.actions) : k # m => run.actions[k].id # run.actions[m].id
    /\ Len(run.actions) > 0 => SuffixNum(run.actions[Len(run.actions)].id) = Len(run.actions)

\* A run that returned two Actions made from two rules of the same id.
C6_Witness ==
    /\ run.status = "returned"
    /\ Len(run.returned) = 2
    /\ run.returned[1].source_rule_id = run.returned[2].source_rule_id
    /\ run.returned[1].id = <<"R", "2", "_", "A", "C", "T", "_", "1">>
    /\ run.returned[2].id = <<"R", "2", "_", "A", "C", "T", "_", "2">>

\* C7: the rules are visited once each, in the order of the RuleSet; a rule
\* contributes at most one Action; the Actions stand in the order of their
\* rules, and the list returned is the fired rules in that order.
C7_DeclarationOrder ==
    /\ run.visited = [k \in 1..Len(run.visited) |-> k]
    /\ Running => Len(run.visited) = run.pos - 1
    /\ \A k, m \in 1..Len(run.actions) : k < m => run.actions[k].src < run.actions[m].src
    /\ run.status = "returned" =>
          /\ Len(run.visited) = Len(run.rules)
          /\ [k \in 1..Len(run.returned) |-> run.returned[k].src] = run.fired

\* A run that returned a priority-5 Action before a priority-2 Action.
C7_Witness ==
    /\ run.status = "returned"
    /\ Len(run.returned) = 2
    /\ run.returned[1].priority = 5
    /\ run.returned[2].priority = 2
    /\ run.returned[1].src = 1

(***************************************************************************)
(* Claims about the loader and about repeated runs.                        *)
(***************************************************************************)
\* The violations of a rules file: the source is no list, or an entry is no
\* mapping, has no id, has an if_all that is no list, or has a condition that
\* is no mapping with a string expr or whose expr does not parse.
EntryViolation(r) ==
    \/ ~r.mapping
    \/ r.id = <<>>
    \/ r.if_all = "not_list"
    \/ \E j \in 1..Len(r.conds) : r.conds[j].kind # "ok" \/ ~r.conds[j].expr.parses

HasViolation(file) ==
    \/ file.kind \in {"falsy", "truthy"}
    \/ \E i \in 1..Len(file.items) : EntryViolation(file.items[i])

\* C3: a load that reads a source with a violation fails, stores nothing for
\* the path, and evaluate_rules over the path emits no Actions.
C3_ViolationFailsLoad ==
    (lastLoad.done /\ lastLoad.read /\ HasViolation(lastLoad.file)) =>
        /\ lastLoad.err # ""
        /\ lastLoad.path \notin CachedPaths(cache)
        /\ run.path = lastLoad.path => run.status = "raised" /\ run.actions = <<>>

\* C8: a run that returns for the rules path and the fact record of the first
\* run that returned yields the same ids in the same order.
C8_SameIdsAgain ==
    (run.status = "returned" /\ first.has /\ run.path = first.path /\ run.ir = first.ir) =>
        Ids(run.returned) = first.ids

\* C9 as stated: a load of a path that has been loaded since the cache was
\* last cleared returns the RuleSet of that load without reading the source,
\* however many other paths were loaded in between; a load of a path not
\* loaded since the last clear reads the source.
C9_CachedUntilCleared ==
    lastLoad.done =>
        IF lastLoad.held
        THEN ~lastLoad.read /\ lastLoad.err = "" /\ lastLoad.rules = lastLoad.heldRules
        ELSE lastLoad.read

\* C9: a load of a path that has been loaded since the cache was last
\* cleared returns the RuleSet of that load without reading the source
\* exactly when fewer than maxsize other paths were used since; otherwise,
\* and for a path not loaded since the last clear, it reads the source.
C9_CachedWhileRecent ==
    lastLoad.done =>
        IF lastLoad.held /\ lastLoad.others < maxsize
        THEN ~lastLoad.read /\ lastLoad.err = "" /\ lastLoad.rules = lastLoad.heldRules
        ELSE lastLoad.read

\* The source was rewritten, maxsize - 1 other paths were loaded, and the
\* load still returns the RuleSet read before.
C9_Witness ==
    /\ lastLoad.done /\ lastLoad.path = ThePath
    /\ lastLoad.held /\ lastLoad.others = maxsize - 1
    /\ ~lastLoad.read
    /\ lastLoad.rules # ReadRules(lastLoad.file).rules

\* A RuleSet that _validate_ruleset accepts.
Valid(rules) == _validate_ruleset(YamlList(rules)).err = ""

\* C10: in every interleaving of two threads loading the same uncached path,
\* a thread that returns holds the whole source as a RuleSet that passes
\* validation, a thread that raises does so with the error of the source,
\* whatever the cache holds is such a RuleSet too, the path is stored at
\* most once, and once both returned it is stored.
C10_BenignRace ==
    LET src == OrEmptyList(fs[ThePath])
        done == {t \in DOMAIN callers : callers[t].pc = "done"}
    IN /\ \A t \in done :
             IF callers[t].err = ""
             THEN /\ src.kind = "list"
                  /\ callers[t].result = src.items
                  /\ Valid(callers[t].result)
             ELSE callers[t].err = ReadRules(fs[ThePath]).err
       /\ \A i \in 1..Len(cache) :
             /\ cache[i].path = ThePath
             /\ cache[i].rules = src.items
             /\ Valid(cache[i].rules)
       /\ Len(cache) <= 1
       /\ (done = Threads /\ \E t \in done : callers[t].err = "") => Len(cache) = 1

\* Both threads missed, read the file and returned a RuleSet of two rules.
C10_Witness ==
    /\ \A t \in DOMAIN callers :
          /\ callers[t].pc = "done"
          /\ callers[t].read
          /\ callers[t].err = ""
          /\ Len(callers[t].result) >= 2
    /\ DOMAIN callers = Threads
    /\ Len(cache) = 1

(***************************************************************************)
(* Claims about the operators of the evaluator (SpecEval, SpecExpr).       *)
(***************************************************************************)
\* The addresses of the nodes of class k in the tree of the call.
NodesOf(k) ==
    IF ~evalCall.expr.parses THEN {}
    ELSE {p \in Addrs(evalCall.expr.tree, <<>>) : NodeAt(evalCall.expr.tree, p).k = k}

\* The node at p of the tree of the call, evaluated on its own.
OwnAt(p) == Own(evalCall.expr.tree, p, CallEnv)

\* C11: for + - * / %, when both operands evaluate and one of them is null
\* the operation yields null without an error (null is not taken for zero);
\* it raises ExpressionError only when both operands are non-null and the
\* operation on them fails, and otherwise yields the operation's value.
C11_NullPropagates ==
    evalCall.done =>
        \A p \in NodesOf("BinOp") :
            LET node == NodeAt(evalCall.expr.tree, p)
                l == OwnAt(Append(p, 1))
                r == OwnAt(Append(p, 2))
                res == OwnAt(p)
            IN (node.op \in ARITHMETIC_OPS /\ l.err = "" /\ r.err = "") =>
                  /\ (IsNone(l.val) \/ IsNone(r.val)) => res.err = "" /\ res.val = VNone
                  /\ res.err \in {"", "ExpressionError"}
                  /\ res.err = "ExpressionError" =>
                        /\ ~IsNone(l.val) /\ ~IsNone(r.val)
                        /\ ApplyArith(node.op, l.val, r.val).err # ""
                  /\ (~IsNone(l.val) /\ ~IsNone(r.val) /\ res.err = "") =>
                        res.val = ApplyArith(node.op, l.val, r.val).val

\* value('m') / 0 evaluated to null.
C11_Witness ==
    /\ evalCall.done
    /\ evalCall.expr.tree = Expression(BinOp(E_Value(<<"m">>), "Div", E_Int(0)))
    /\ evalCall.res.err = ""
    /\ evalCall.res.val = VNone

\* One comparison a OP b of two values.
PairRes(op, a, b) ==
    Visit(Compare(Constant(a), <<op>>, <<Constant(b)>>), <<>>, NewSafeEval, CallEnv)

\* C12: for a single comparison whose operands evaluate: both null gives
\* true for == and false otherwise; exactly one null gives true for != and
\* false otherwise, in both cases without an error; otherwise the native
\* comparison decides (an error of it is an ExpressionError); a result is
\* always exactly true or false.
C12_NullComparison ==
    evalCall.done =>
        \A p \in NodesOf("Compare") :
            LET node == NodeAt(evalCall.expr.tree, p)
                op == node.ops[1]
                l == OwnAt(Append(p, 1))
                r == OwnAt(Append(p, 2))
                res == OwnAt(p)
                native == ApplyCompare(op, l.val, r.val)
            IN (Len(node.ops) = 1 /\ op \in COMPARISON_OPS /\ l.err = "" /\ r.err = "") =>
                  /\ IsNone(l.val) /\ IsNone(r.val) =>
                        res.err = "" /\ res.val = VBool(op = "Eq")
                  /\ IsNone(l.val) # IsNone(r.val) =>
                        res.err = "" /\ res.val = VBool(op = "NotEq")
                  /\ ~IsNone(l.val) /\ ~IsNone(r.val) =>
                        IF native.err # "" THEN res.err = "ExpressionError"
                        ELSE res.err = "" /\ res.val = native.val
                  /\ res.err = "" => res.val \in {VBool(TRUE), VBool(FALSE)}

\* value('a') < 5 on a fact record whose a is null: false, no error.
C12_Witness ==
    /\ evalCall.done
    /\ evalCall.expr.tree = Expression(Compare(E_Value(K_a), <<"Lt">>, <<E_Int(5)>>))
    /\ evalCall.root = VDict(2)
    /\ evalCall.res.err = ""
    /\ evalCall.res.val = VBool(FALSE)

NoDuplicates(seq) == \A i, j \in 1..Len(seq) : seq[i] = seq[j] => i = j

\* C13: in a chain a OP1 b OP2 c ... no operand is evaluated twice; at the
\* first pair that is false the chain yields false and no later operand is
\* evaluated; the chain yields true only if every pair is true.
C13_ChainedComparison ==
    evalCall.done =>
        /\ NoDuplicates(evalCall.res.st.trace)
        /\ \A p \in NodesOf("Compare") :
              LET node == NodeAt(evalCall.expr.tree, p)
                  n == Len(node.ops)
                  v(i) == OwnAt(Append(p, i))
                  pair(i) == PairRes(node.ops[i], v(i).val, v(i + 1).val)
                  res == OwnAt(p)
              IN (n >= 2 /\ p \in Range(evalCall.res.st.trace)) =>
                    /\ \A i \in 1..n :
                          ((\A k \in 1..(i + 1) : v(k).err = "")
                              /\ (\A k \in 1..(i - 1) : pair(k).err = "" /\ Truthy(pair(k).val))
                              /\ pair(i).err = "" /\ ~Truthy(pair(i).val)) =>
                             /\ res.err = "" /\ res.val = VBool(FALSE)
                             /\ \A j \in (i + 2)..(n + 1) :
                                   \A q \in Touched(evalCall.res) : ~IsPrefix(Append(p, j), q)
                    /\ (res.err = "" /\ res.val = VBool(TRUE)) =>
                          \A i \in 1..n : pair(i).err = "" /\ Truthy(pair(i).val)
                    /\ ((\A k \in 1..(n + 1) : v(k).err = "")
                           /\ \A i \in 1..n : pair(i).err = "" /\ Truthy(pair(i).val)) =>
                          res.err = "" /\ res.val = VBool(TRUE)

\* 5 < 1 < (1/0): false at the first pair, the division is never evaluated.
C13_Witness ==
    /\ evalCall.done
    /\ evalCall.expr.tree =
          Expression(Compare(E_Int(5), <<"Lt", "Lt">>, <<E_Int(1), E_DivZero>>))
    /\ evalCall.res.err = ""
    /\ evalCall.res.val = VBool(FALSE)
    /\ evalCall.res.st.trace = << <<>>, <<1>>, <<1, 1>>, <<1, 2>> >>

\* The first operand of the connective at p that decides it, given that it
\* and the operands before it evaluate; 0 if there is none.
FirstDeciding(p) ==
    LET node == NodeAt(evalCall.expr.tree, p)
        hits == {i \in 1..Len(node.args) :
                    /\ \A k \in 1..i : OwnAt(Append(p, k)).err = ""
                    /\ Decides(node.op, OwnAt(Append(p, i)).val)
                    /\ \A k \in 1..(i - 1) : ~Decides(node.op, OwnAt(Append(p, k)).val)}
    IN IF hits = {} THEN 0 ELSE CHOOSE i \in hits : TRUE

\* Whether every operand of the connective at p evaluates and none decides it.
NoneDecides(p) ==
    \A k \in 1..Len(NodeAt(evalCall.expr.tree, p).args) :
        /\ OwnAt(Append(p, k)).err = ""
        /\ ~Decides(NodeAt(evalCall.expr.tree, p).op, OwnAt(Append(p, k)).val)

\* The `or` nodes the call evaluated.
OrNodes == {p \in NodesOf("BoolOp") : NodeAt(evalCall.expr.tree, p).op = "Or"
                                       /\ p \in Range(evalCall.res.st.trace)}
AndNodes == {p \in NodesOf("BoolOp") : NodeAt(evalCall.expr.tree, p).op = "And"
                                        /\ p \in Range(evalCall.res.st.trace)}

LastOperand(p) == OwnAt(Append(p, Len(NodeAt(evalCall.expr.tree, p).args)))

\* C14 as stated: `or` yields the value of its first truthy operand, and
\* false whenever none of its operands is truthy.
C14_OrFalseIfNoneTruthy ==
    evalCall.done =>
        \A p \in OrNodes :
            /\ FirstDeciding(p) # 0 =>
                  OwnAt(p).err = "" /\ OwnAt(p).val = OwnAt(Append(p, FirstDeciding(p))).val
            /\ NoneDecides(p) => OwnAt(p).err = "" /\ OwnAt(p).val = VBool(FALSE)

\* C14: `or` yields the value of its first truthy operand; when none of its
\* operands is truthy it yields the value of its last operand, or false when
\* that value is null.
C14_OrLastIfNoneTruthy ==
    evalCall.done =>
        \A p \in OrNodes :
            /\ FirstDeciding(p) # 0 =>
                  OwnAt(p).err = "" /\ OwnAt(p).val = OwnAt(Append(p, FirstDeciding(p))).val
            /\ NoneDecides(p) =>
                  /\ OwnAt(p).err = ""
                  /\ OwnAt(p).val = IF IsNone(LastOperand(p).val) THEN VBool(FALSE)
                                    ELSE LastOperand(p).val

\* False or '' evaluated to ''.
C14_Witness ==
    /\ evalCall.done
    /\ evalCall.expr.tree = Expression(BoolOp("Or", <<E_False, E_Str(<<>>)>>))
    /\ evalCall.res.err = ""
    /\ evalCall.res.val = VStr(<<>>)

\* C15: `and` yields the value of the last operand it evaluated: its first
\* falsy operand's own value, or its final operand's value when all are
\* truthy; only a null operand is turned into false.
C15_AndLastEvaluated ==
    evalCall.done =>
        \A p \in AndNodes :
            /\ FirstDeciding(p) # 0 =>
                  LET v == OwnAt(Append(p, FirstDeciding(p))).val
                  IN /\ OwnAt(p).err = ""
                     /\ OwnAt(p).val = IF IsNone(v) THEN VBool(FALSE) ELSE v
            /\ NoneDecides(p) => OwnAt(p).err = "" /\ OwnAt(p).val = LastOperand(p).val
            /\ OwnAt(p).err = "" => ~IsNone(OwnAt(p).val)

\* 0 and (1/0) evaluated to 0: the operand's own value, not false.
C15_Witness ==
    /\ evalCall.done
    /\ evalCall.expr.tree = Expression(BoolOp("And", <<E_Int(0), E_DivZero>>))
    /\ evalCall.res.err = ""
    /\ evalCall.res.val = VInt(0)

(***************************************************************************)
(* Claims about the limits of eval_expr (SpecLimits, SpecExpr).            *)
(***************************************************************************)
\* The nesting depth of a tree: a leaf has depth 1.
RECURSIVE AstDepth(_)
AstDepth(node) ==
    LET RECURSIVE deepest(_)
        deepest(i) ==
            IF i > Len(node.args) THEN 0
            ELSE LET d == AstDepth(node.args[i])
                     rest == deepest(i + 1)
                 IN IF d > rest THEN d ELSE rest
    IN 1 + deepest(1)

\* C16: a text of more than max_length characters fails with
\* ResourceLimitError, well-formed or not, and nothing of it is evaluated; a
\* text of max_length characters or fewer is not rejected for its length: it
\* fails with ParseError when it is not well-formed, and with
\* ResourceLimitError only out of a visit.
C16_LengthBeforeParse ==
    evalCall.done =>
        IF evalCall.expr.len > evalCall.max_length
        THEN /\ evalCall.res.err = "ResourceLimitError"
             /\ evalCall.res.st = NewSafeEval
        ELSE IF ~evalCall.expr.parses THEN evalCall.res.err = "ParseError"
        ELSE /\ evalCall.res.st.trace # <<>>
             /\ evalCall.res.err \in {"", "ResourceLimitError"}
             /\ evalCall.res.err = "ResourceLimitError" =>
                   AstDepth(evalCall.expr.tree) > evalCall.max_depth

\* A text of max_length + 1 characters that is not well-formed failed with
\* ResourceLimitError.
C16_Witness ==
    /\ evalCall.done
    /\ evalCall.expr = BadSyntax(evalCall.max_length + 1)
    /\ evalCall.res.err = "ResourceLimitError"

\* C17: a call on an expression nested deeper than max_depth (the enclosing
\* ast.Expression not counted) never yields a value.
C17_OverDeepNeverYields ==
    (evalCall.done /\ evalCall.expr.parses /\ evalCall.expr.len <= evalCall.max_length
        /\ AstDepth(evalCall.expr.tree.args[1]) > evalCall.max_depth) =>
        evalCall.res.err # ""

(***************************************************************************)
(* Claims about calls (SpecEval).                                          *)
(***************************************************************************)
\* C18: a call of eval_expr yields a value or raises one of the DSL error
\* classes, whatever a helper does.
C18_OnlyDslErrors ==
    evalCall.done => evalCall.res.err \in DSLErrors \cup {""}

\* The arguments of the call at p, each evaluated on its own.
ArgRes(p) ==
    [i \in 1..Len(NodeAt(evalCall.expr.tree, p).args) |-> OwnAt(Append(p, i))]
ArgVals(p) == [i \in DOMAIN ArgRes(p) |-> ArgRes(p)[i].val]

\* The branches of _handle_call taken for the call at p itself.
ViaAt(p) == {c.via : c \in {c \in Range(OwnAt(p).st.calls) : c.at = p}}

\* C19: a call name(args) whose arguments evaluate goes to the accessor
\* registered under the name, bound to the root, also when a function of
\* that name is registered; otherwise to the function registered under the
\* name, with the values of the arguments; otherwise it fails with
\* HelperNotFoundError and evaluates no argument.
C19_DispatchOrder ==
    evalCall.done =>
        \A p \in NodesOf("Call") :
            LET node == NodeAt(evalCall.expr.tree, p)
                res == OwnAt(p)
                args == ArgVals(p)
                allok == \A i \in DOMAIN ArgRes(p) : ArgRes(p)[i].err = ""
            IN (node.op = "Name" /\ p \in Range(evalCall.res.st.trace)) =>
                  IF node.id \in DOMAIN registry.accessors
                  THEN allok =>
                          /\ ViaAt(p) \subseteq {"accessor"}
                          /\ IF node.id = "value"
                             THEN \/ res.err = "ExpressionError"
                                  \/ /\ res.err = "" /\ Len(args) \in {1, 2}
                                     /\ res.val = value(args[1].s, evalCall.root,
                                                        IF Len(args) = 2 THEN args[2] ELSE VNone)
                             ELSE LET x == CallAccessor(registry.accessors[node.id],
                                                        evalCall.root, args)
                                  IN res.err = x.err /\ res.val = x.val
                                        /\ ViaAt(p) = {"accessor"}
                  ELSE IF node.id \in DOMAIN registry.functions
                  THEN allok =>
                          LET x == CallFunction(registry.functions[node.id], args)
                          IN /\ ViaAt(p) = {"function"}
                             /\ IF x.err # "" THEN res.err = "ExpressionError"
                                ELSE res.err = "" /\ res.val = x.val
                  ELSE /\ res.err = "HelperNotFoundError"
                       /\ \A q \in Range(res.st.trace) : q = p

\* min(1, 2) after an accessor was registered as min: the accessor answers.
C19_Witness ==
    /\ evalCall.done
    /\ evalCall.expr.tree = Expression(Call("min", <<E_Int(1), E_Int(2)>>))
    /\ "min" \in DOMAIN registry.accessors /\ "min" \in DOMAIN registry.functions
    /\ evalCall.res.err = ""
    /\ evalCall.res.val = VInt(0)
    /\ evalCall.res.st.calls = <<[at |-> <<1>>, via |-> "accessor"]>>

\* What the segments lead to from cur: [found, v].  Nothing is found once a
\* segment is looked up in null or in a value that is no mapping, or is no
\* key of the mapping.
RECURSIVE Resolve(_, _)
Resolve(cur, segs) ==
    IF segs = <<>> THEN [found |-> TRUE, v |-> cur]
    ELSE IF cur.t # "dict" THEN [found |-> FALSE, v |-> VNone]
    ELSE IF Head(segs) \notin DOMAIN Heap[cur.n] THEN [found |-> FALSE, v |-> VNone]
    ELSE Resolve(Heap[cur.n][Head(segs)], Tail(segs))

\* Whether the tree is value('path') or value('path', default).
IsValueCall(node) ==
    /\ node.k = "Call" /\ node.op = "Name" /\ node.id = "value"
    /\ Len(node.args) \in {1, 2}
    /\ node.args[1].k = "Constant" /\ IsStr(node.args[1].v)

Before == regCall.before[regCall.on]
After == AllRegistries[regCall.on]

\* Every helper d1 holds is held by d2 under the same name.
Kept(d1, d2) == \A n \in DOMAIN d1 : n \in DOMAIN d2 /\ d2[n] = d1[n]

\* C21: register_function fails exactly when the name is already among the
\* functions or the argument is not callable, register_accessor exactly when
\* the name is already among the accessors or the argument is not callable;
\* a failed registration leaves both maps as they were, a successful one adds
\* the one entry, and no existing helper is ever replaced.
C21_RegistrationFails ==
    (regCall.done /\ regCall.op \in {"register_function", "register_accessor"}) =>
        LET isFn == regCall.op = "register_function"
            held == IF isFn THEN Before.functions ELSE Before.accessors
            now == IF isFn THEN After.functions ELSE After.accessors
            fails == regCall.name \in DOMAIN held \/ regCall.func = "not_callable"
        IN /\ regCall.err = (IF fails THEN "ValueError" ELSE "")
           /\ fails => After = Before
           /\ ~fails => /\ DOMAIN now = DOMAIN held \cup {regCall.name}
                         /\ now[regCall.name] = regCall.func
           /\ Kept(Before.functions, After.functions)
           /\ Kept(Before.accessors, After.accessors)
           /\ isFn => After.accessors = Before.accessors
           /\ ~isFn => After.functions = Before.functions

\* A second register_function("f", ...) and its ValueError.
C21_Witness ==
    /\ regCall.done
    /\ regCall.op = "register_function"
    /\ regCall.name = "f"
    /\ regCall.func = "one"
    /\ "f" \in DOMAIN Before.functions
    /\ regCall.err = "ValueError"
    /\ After = Before

\* C22: every registry always holds the functions min and max and the
\* accessor value; right after clear() it holds these three and nothing
\* else, and every other name it held before can be registered again.
C22_BuiltinsAlways ==
    /\ \A t \in RegistryNames :
          /\ {"min", "max"} \subseteq DOMAIN AllRegistries[t].functions
          /\ "value" \in DOMAIN AllRegistries[t].accessors
    /\ (regCall.done /\ regCall.op = "clear") =>
          /\ DOMAIN After.functions = {"min", "max"}
          /\ DOMAIN After.accessors = {"value"}
          /\ \A n \in DOMAIN Before.functions \ {"min", "max"} :
                LET r == register_function(After, n, Before.functions[n])
                IN r.err = "" /\ r.reg.functions[n] = Before.functions[n]
          /\ \A n \in DOMAIN Before.accessors \ {"value"} :
                LET r == register_accessor(After, n, Before.accessors[n])
                IN r.err = "" /\ r.reg.accessors[n] = Before.accessors[n]

\* clear() on a registry that held a function f and an accessor f.
C22_Witness ==
    /\ regCall.done
    /\ regCall.op = "clear"
    /\ "f" \in DOMAIN Before.functions
    /\ "f" \in DOMAIN Before.accessors
    /\ After = NewRegistry

\* The Call node eval_expr was given in SpecRegistry.
CalledName == evalCall.expr.tree.args[1].id

\* C23: a call of a registry method changes no registry but the one it is
\* made on; eval_expr given a private registry resolves names in that
\* registry alone (a name it does not hold fails with HelperNotFoundError,
\* whatever the default registry holds) and given none, in the default one.
C23_RegistriesIsolated ==
    /\ regCall.done =>
          \A t \in RegistryNames \ {regCall.on} : AllRegistries[t] = regCall.before[t]
    /\ evalCall.done =>
          LET own == IF evalCall.registry = "None" THEN registry
                     ELSE private[evalCall.registry]
          IN /\ evalCall.res = eval_expr(evalCall.expr, evalCall.root, own,
                                          evalCall.max_length, evalCall.max_depth)
             /\ CalledName \notin DOMAIN own.functions \cup DOMAIN own.accessors
                   => evalCall.res.err = "HelperNotFoundError"
             /\ \A c \in Range(evalCall.res.st.calls) :
                   /\ c.via = "accessor" => CalledName \in DOMAIN own.accessors
                   /\ c.via = "function" => CalledName \in DOMAIN own.functions

\* f() given the private registry p1, with f registered in the default
\* registry and in p2 but not in p1.
C23_Witness ==
    /\ evalCall.done
    /\ evalCall.registry = "p1"
    /\ CalledName = "f"
    /\ "f" \in DOMAIN registry.functions
    /\ "f" \in DOMAIN private["p2"].accessors
    /\ "f" \notin DOMAIN private["p1"].functions \cup DOMAIN private["p1"].accessors
    /\ evalCall.res.err = "HelperNotFoundError"
    /\ regCall.done

\* C30: in every registry the names of the functions and the names of the
\* accessors are disjoint.
C30_KindsDisjoint ==
    \A t \in RegistryNames :
        DOMAIN AllRegistries[t].functions \cap DOMAIN AllRegistries[t].accessors = {}

(***************************************************************************)
(* Claims about the errors of a load (SpecRun, SpecLoad).                  *)
(***************************************************************************)
\* What _validate_ruleset makes of the source the last load read.
LastValidation == _validate_ruleset(OrEmptyList(lastLoad.file))

\* C24: a load that fails on a violation in an entry of the rule source
\* raises an error whose message names that entry: by its id, or by its
\* index when the entry has no id.
C24_FailureNamesRule ==
    (/\ lastLoad.done
     /\ lastLoad.read
     /\ lastLoad.err \notin {"", "FileNotFoundError"}
     /\ OrEmptyList(lastLoad.file).kind = "list") =>
        LET v == LastValidation
            r == lastLoad.file.items[v.at]
        IN /\ v.err = lastLoad.err
           /\ v.names = (IF ~r.mapping \/ r.id = <<>> THEN "index" ELSE "id")

\* Whether eval_expr fails on a text before it evaluates anything: on its
\* length or in the parse.
FailsBeforeEvaluation(expr) ==
    eval_expr(expr, VNone, NewRegistry, DefaultMaxLength, DefaultMaxDepth).err
        \in {"ResourceLimitError", "ParseError"}

\* The entries of a source are well-formed apart from the texts of their exprs.
WellFormedEntries(file) ==
    \A i \in 1..Len(file.items) :
        LET r == file.items[i]
        IN /\ r.mapping
           /\ r.id # <<>>
           /\ r.if_all # "not_list"
           /\ \A j \in 1..Len(IfAll(r)) : IfAll(r)[j].kind = "ok"

\* C25: a load of a source with well-formed entries fails exactly when
\* eval_expr would fail on one of the condition exprs before evaluating it
\* (the text is longer than max_length or does not parse), and a run over a
\* loaded RuleSet raises neither ParseError nor a ResourceLimitError.
C25_LoadAgreesWithEvaluator ==
    (/\ lastLoad.done
     /\ lastLoad.read
     /\ lastLoad.file.kind = "list"
     /\ WellFormedEntries(lastLoad.file)) =>
        /\ lastLoad.err # "" <=>
              \E i \in 1..Len(lastLoad.file.items) :
                 \E j \in 1..Len(IfAll(lastLoad.file.items[i])) :
                    FailsBeforeEvaluation(IfAll(lastLoad.file.items[i])[j].expr)
        /\ (run.status = "raised" /\ lastLoad.err = "") =>
              run.err \notin {"ParseError", "ResourceLimitError"}

(***************************************************************************)
(* Claims about impact resolution (SpecImpact).                            *)
(***************************************************************************)
\* What eval_expr makes of a string leaf in the current run.
LeafRes(leaf) ==
    eval_expr(leaf.expr, run.ir, registry, DefaultMaxLength, DefaultMaxDepth)

\* The string leaves of a rule whose evaluation fails.
FailingLeaves(r) ==
    {k \in DOMAIN r.expected_impact :
        r.expected_impact[k].str /\ LeafRes(r.expected_impact[k]).err # ""}

Fits(k, v) ==
    /\ k \in FloatFields =>
          IsNone(v) \/ v.t \in {"int", "float"} \/ (IsStr(v) /\ ReadsAsFloat(v.s))
    /\ k = "risk" => IsStr(v) /\ v.s \in RiskLabels

C27_DepthRestored ==
    evalCall.done =>
        /\ evalCall.res.st.depth = 0
        /\ \A p \in Range(evalCall.res.st.trace) : OwnAt(p).st.depth = Len(p)

\* C28: a binary operator outside + - * / % whose operands both evaluate
\* fails with UnsupportedNodeError, whatever the operands' values.
C28_UnsupportedOperator ==
    evalCall.done =>
        \A p \in NodesOf("BinOp") :
            (/\ NodeAt(evalCall.expr.tree, p).op \notin ARITHMETIC_OPS
             /\ OwnAt(Append(p, 1)).err = ""
             /\ OwnAt(Append(p, 2)).err = "") =>
                OwnAt(p).err = "UnsupportedNodeError"

\* The number of `not` around the literal of a tree of LimitTrees.
Nots(tree) == AstDepth(tree) - 1

\* A call on k nested `not` around a literal that passed the length check.
NestedNotCall ==
    /\ evalCall.done
    /\ evalCall.expr.parses
    /\ evalCall.expr.len <= evalCall.max_length
    /\ evalCall.expr.tree.args[1] \in LimitTrees

\* C29 as stated: k nested `not` around a literal evaluate when
\* k + 1 <= max_depth and fail with ResourceLimitError when k + 1 > max_depth.
C29_RootNotCounted ==
    NestedNotCall =>
        evalCall.res.err = (IF Nots(evalCall.expr.tree.args[1]) + 1 <= evalCall.max_depth
                            THEN "" ELSE "ResourceLimitError")

\* C29: k nested `not` around a literal evaluate when k + 2 <= max_depth and
\* fail with ResourceLimitError when k + 2 > max_depth: the visit of the
\* enclosing ast.Expression counts as one level.
C29_RootCounted ==
    NestedNotCall =>
        LET k == Nots(evalCall.expr.tree.args[1])
        IN IF k + 2 <= evalCall.max_depth
           THEN /\ evalCall.res.err = ""
                /\ evalCall.res.val = VBool(k % 2 = 0)
           ELSE evalCall.res.err = "ResourceLimitError"

\* `not not True` under max_depth = 3 failed, and `not True` under it did not.
C29_Witness ==
    /\ NestedNotCall
    /\ evalCall.max_depth = 3
    /\ \/ /\ evalCall.expr.tree.args[1] = NestedNot(2)
          /\ evalCall.res.err = "ResourceLimitError"
       \/ /\ evalCall.expr.tree.args[1] = NestedNot(1)
          /\ evalCall.res.err = ""

====
